---- MODULE Spec2Model ----
(* Model of BEX CLI ULTRA (src/index.js): the conversation store, the      *)
(* provider gateway of handleInput, the command table and the agent loop   *)
(* of commands['/task'].                                                   *)
(*                                                                         *)
(* Texts are sequences of tokens; the tokens " " and "\n" are whitespace.  *)
(* One action runs the code from one awaited I/O call to the next.         *)
EXTENDS Integers, Sequences, FiniteSets, TLC

VARIABLES history, memFile, currentProvider, pendingImage, hasGoogle,
          hasDeepseek, stack, exited, confirmPending, nCalls, nLines,
          mcpServers, boot, multilineMode, multilineBuffer, procs, server,
          browser, page

vars == <<history, memFile, currentProvider, pendingImage, hasGoogle,
          hasDeepseek, stack, exited, confirmPending, nCalls, nLines,
          mcpServers, boot, multilineMode, multilineBuffer, procs, server,
          browser, page>>

\* multiline input, which only handleInput and /multiline touch
multiline == <<multilineMode, multilineBuffer>>

\* what is outside the interactive process: the processes of the daemon
\* path and the tool server
outside == <<procs, server>>

\* the Puppeteer browser and its page, null until /browser has launched them
browsing == <<browser, page>>

(* ---------------------------------------------------------------- bounds *)
\* const maxSteps = 20 in the source; scaled down to keep the model finite
maxSteps == 3
\* provider calls answered in one behaviour
MaxCalls == 3
\* input lines read in one behaviour
MaxLines == 2
\* nesting depth of dispatches (frames on the call stack)
MaxDepth == 3
\* input lines read in one behaviour of a session in multiline mode
MaxMlLines == 4
\* restarts of the process in one behaviour
MaxBoots == 1
\* arguments on the command line of a process
MaxArgs == 4
\* processes in one behaviour of the daemon path
MaxProcs == 3
\* Turns of a conversation whose snapshot is written and restored
MaxTurns == 2

(* ----------------------------------------------------------------- texts *)
IsSpace(t) == t \in {" ", "\n"}

\* String.prototype.toLowerCase on one token
LowerTok(t) ==
  CASE t = "/DONE" -> "/done"
    [] t = "/Done" -> "/done"
    [] t = "AUTO" -> "auto"
    [] t = "Google" -> "google"
    [] OTHER -> t

ToLower(s) == [i \in 1..Len(s) |-> LowerTok(s[i])]

RECURSIVE TrimLeft(_)
TrimLeft(s) == IF s # <<>> /\ IsSpace(Head(s)) THEN TrimLeft(Tail(s)) ELSE s

RECURSIVE TrimRight(_)
TrimRight(s) ==
  IF s # <<>> /\ IsSpace(s[Len(s)]) THEN TrimRight(SubSeq(s, 1, Len(s) - 1))
  ELSE s

\* String.prototype.trim
Trim(s) == TrimRight(TrimLeft(s))

\* tokens whose first character is '/'
SlashTokens == {"/done", "/DONE", "/Done", "/ls", "/delete", "/task", "/clear",
                "/quit", "/provider", "/nope", "/workflow", "/image", "/help",
                "/mcp_add", "/mcp_tools", "/mcp_call", "/multiline", "/browser",
                "/google", "/visit", "/dump", "/write"}

\* String.prototype.startsWith('/')
StartsWithSlash(s) == s # <<>> /\ s[1] \in SlashTokens

\* String.prototype.split(' '): the parts between " " tokens
RECURSIVE SplitFrom(_, _, _)
SplitFrom(s, cur, acc) ==
  IF s = <<>> THEN Append(acc, cur)
  ELSE IF Head(s) = " " THEN SplitFrom(Tail(s), <<>>, Append(acc, cur))
       ELSE SplitFrom(Tail(s), Append(cur, Head(s)), acc)

Split(s) == SplitFrom(s, <<>>, <<>>)

\* Array.prototype.join(' ')
RECURSIVE Join(_)
Join(parts) ==
  IF parts = <<>> THEN <<>>
  ELSE IF Len(parts) = 1 THEN parts[1]
       ELSE parts[1] \o <<" ">> \o Join(Tail(parts))

(* --------------------------------------------------------- command table *)
\* the keys of the object literal commands
CommandTable ==
  {"/help", "/menu", "/quit", "/clear", "/provider", "/ls", "/read", "/write",
   "/append", "/delete", "/rename", "/save", "/download", "/image", "/sandbox",
   "/exec", "/task", "/auto", "/workflow", "/browser", "/google", "/url",
   "/open", "/visit", "/click", "/type", "/dump", "/screenshot", "/mcp_list",
   "/mcp_add", "/mcp_tools", "/mcp_call", "/multiline", "/status",
   "/persistent", "/grep", "/glob", "/git", "/project", "/memory"}

\* the commands advertised in the user Turn that starts the agent loop
AllowList ==
  {"/exec", "/read", "/write", "/append", "/ls", "/browser", "/visit", "/dump",
   "/click", "/type", "/google", "/done"}

\* commands[cmd] of a part of a split line: the key, or "" when there is none
CmdKey(part) ==
  IF Len(part) = 1 /\ part[1] \in CommandTable THEN part[1] ELSE ""

(* ---------------------------------------------------------------- turns *)
Turn(r, c) == [role |-> r, content |-> c]

\* the user Turn pushed by commands['/task'] before the loop
\* mutant: the goal is pushed under the role system
GoalTurnAsSystem(goal) == Turn("system", <<"GOAL: ">> \o goal)

GoalTurn(goal) == Turn("user", <<"GOAL: ">> \o goal \o <<"CONTRACT">>)

UnknownTurn == Turn("system", <<"Unknown command.">>)

\* mutant: the listing is pushed under the user role
LsTurnAsUser(dir, files) ==
  [role |-> "user", content |-> <<"Output of /ls ">> \o dir \o <<":", "\n">> \o files]

LsTurn(dir, files) ==
  Turn("system", <<"Output of /ls ">> \o dir \o <<":", "\n">> \o files)

(* ------------------------------------------------------- the snapshot *)
\* JSON.stringify of the characters of a string: quote, backslash and
\* newline are written as escapes
\* mutant: the characters are written as they are
EscapeNothing(s) == s

RECURSIVE Escape(_)
Escape(s) ==
  IF s = <<>> THEN <<>>
  ELSE (CASE Head(s) = "\"" -> <<"\\", "\"">>
          [] Head(s) = "\\" -> <<"\\", "\\">>
          [] Head(s) = "\n" -> <<"\\", "n">>
          [] OTHER -> <<Head(s)>>) \o Escape(Tail(s))

JsonString(s) == <<"\"">> \o Escape(s) \o <<"\"">>

\* one Turn, as JSON.stringify(_, null, 2) writes an object of an array
TurnJson(t) ==
  <<"{", "\n", " ">> \o JsonString(<<"role">>) \o <<":", " ">> \o JsonString(<<t.role>>)
    \o <<",", "\n", " ">> \o JsonString(<<"content">>) \o <<":", " ">>
    \o JsonString(t.content) \o <<"\n", " ", "}">>

RECURSIVE TurnsJson(_)
TurnsJson(h) ==
  IF Len(h) = 1 THEN TurnJson(h[1])
  ELSE TurnJson(h[1]) \o <<",", "\n", " ">> \o TurnsJson(Tail(h))

\* JSON.stringify(history, null, 2)
Stringify(h) ==
  IF h = <<>> THEN <<"[", "]">>
  ELSE <<"[", "\n", " ">> \o TurnsJson(h) \o <<"\n", "]">>

\* JSON.parse skips the whitespace between the tokens of a value
RECURSIVE SkipWs(_)
SkipWs(s) == IF s # <<>> /\ IsSpace(Head(s)) THEN SkipWs(Tail(s)) ELSE s

\* JSON.parse of the characters after an opening quote, up to the closing
\* one: <<parsed, value, rest>>
RECURSIVE ParseChars(_, _)
ParseChars(s, acc) ==
  IF s = <<>> \/ Head(s) = "\n" THEN <<FALSE, <<>>, <<>>>>
  ELSE IF Head(s) = "\"" THEN <<TRUE, acc, Tail(s)>>
  ELSE IF Head(s) = "\\"
  THEN IF Len(s) < 2 THEN <<FALSE, <<>>, <<>>>>
       ELSE IF s[2] = "\"" THEN ParseChars(SubSeq(s, 3, Len(s)), Append(acc, "\""))
       ELSE IF s[2] = "\\" THEN ParseChars(SubSeq(s, 3, Len(s)), Append(acc, "\\"))
       ELSE IF s[2] = "n" THEN ParseChars(SubSeq(s, 3, Len(s)), Append(acc, "\n"))
       ELSE <<FALSE, <<>>, <<>>>>
  ELSE ParseChars(Tail(s), Append(acc, Head(s)))

\* JSON.parse of a string: <<parsed, value, rest>>
ParseString(s0) ==
  LET s == SkipWs(s0)
  IN  IF s = <<>> \/ Head(s) # "\"" THEN <<FALSE, <<>>, <<>>>>
      ELSE ParseChars(Tail(s), <<>>)

\* JSON.parse of a member "key": "value", after the separator sep
ParseMember(s0, sep) ==
  LET s == SkipWs(s0)
  IN  IF s = <<>> \/ Head(s) # sep THEN <<FALSE, <<>>, <<>>, <<>>>>
      ELSE LET k == ParseString(Tail(s))
               c == SkipWs(k[3])
           IN  IF ~k[1] \/ c = <<>> \/ Head(c) # ":" THEN <<FALSE, <<>>, <<>>, <<>>>>
               ELSE LET v == ParseString(Tail(c))
                    IN  <<v[1], k[2], v[2], v[3]>>

\* JSON.parse of an object with the members role and content:
\* <<parsed, Turn, rest>>
ParseTurn(s) ==
  LET m1 == ParseMember(s, "{")
      m2 == ParseMember(m1[4], ",")
      e == SkipWs(m2[4])
  IN  IF m1[1] /\ m2[1] /\ e # <<>> /\ Head(e) = "}"
         /\ m1[2] = <<"role">> /\ m2[2] = <<"content">> /\ Len(m1[3]) = 1
      THEN <<TRUE, [role |-> m1[3][1], content |-> m2[3]], Tail(e)>>
      ELSE <<FALSE, [role |-> "", content |-> <<>>], <<>>>>

\* JSON.parse of the objects of an array, after its opening bracket:
\* <<parsed, Turns>>
RECURSIVE ParseTurns(_, _)
ParseTurns(s, acc) ==
  LET t == ParseTurn(s)
      r == SkipWs(t[3])
  IN  IF ~t[1] \/ r = <<>> THEN <<FALSE, <<>>>>
      ELSE IF r = <<"]">> THEN <<TRUE, Append(acc, t[2])>>
      ELSE IF Head(r) = "," THEN ParseTurns(Tail(r), Append(acc, t[2]))
      ELSE <<FALSE, <<>>>>

\* JSON.parse of the text of a snapshot: <<parsed, Turns>>
Parse(text) ==
  LET s == SkipWs(text)
  IN  IF s = <<>> \/ Head(s) # "[" THEN <<FALSE, <<>>>>
      ELSE IF SkipWs(Tail(s)) = <<"]">> THEN <<TRUE, <<>>>>
      ELSE ParseTurns(Tail(s), <<>>)

NoFile == [exists |-> FALSE, text |-> <<>>]

\* fs.writeFileSync(MEMORY_FILE, JSON.stringify(history, null, 2))
Snapshot(h) == [exists |-> TRUE, text |-> Stringify(h)]

\* if (fs.existsSync(MEMORY_FILE)) history = JSON.parse(fs.readFileSync(...))
Restored(file) == IF file.exists THEN Parse(file.text)[2] ELSE <<>>

(* ---------------------------------------------------------------- frames *)
(* A frame is one activation of handleInput (kind "hi") or of a command    *)
(* handler (kind "cmd"): pc is its position, ret what the handler it        *)
(* awaited gave back, out what it gives back itself, use the backend it     *)
(* calls, err the backend whose error it holds. The other fields are        *)
(* history variables: trace lists what the activation did, in order; acts   *)
(* the action texts it received; term how it ended; base and mem0 are the   *)
(* length of history and the snapshot when it started, mode0 the            *)
(* ProviderMode when it started and modeC the ProviderMode it read last (a  *)
(* STEP choosing its backend, handleInput catching a provider error); cut   *)
(* says that history was cleared while it ran; img says what became of the  *)
(* pending image at its last provider call: "sent" with the request, "kept" *)
(* pending and not sent, "none" when there was none; reg0 is the tool        *)
(* registry when it started. A tool handler keeps in todo the registry      *)
(* entries it has still to query, and in log what it did, for which label,  *)
(* and what the server answered; req is the request of its last provider    *)
(* call; ml0 and buf0 are the multiline mode and buffer when it started.    *)
(* In a frame of /google, step is the handler of GoogleSteps it awaits.     *)
Frame(kind, line, sys) ==
  [kind |-> kind, pc |-> "enter", line |-> line, sys |-> sys, cmd |-> "",
   args |-> <<>>, step |-> 0, ret |-> "none", out |-> "ok", use |-> "",
   err |-> "", resp |-> <<>>, plan |-> <<>>, trace |-> <<>>, acts |-> <<>>,
   term |-> "", base |-> 0, mem0 |-> NoFile, mode0 |-> "", modeC |-> "",
   cut |-> FALSE, img |-> "none", reg0 |-> <<>>, todo |-> <<>>, log |-> <<>>,
   req |-> <<>>, ml0 |-> FALSE, buf0 |-> <<>>]

NoFrame == Frame("none", <<>>, FALSE)

CmdFrame(cmd, args) == [Frame("cmd", <<>>, FALSE) EXCEPT !.cmd = cmd, !.args = args]

Top == stack[Len(stack)]

Below == SubSeq(stack, 1, Len(stack) - 1)

\* the stack with its top frame replaced
SetTop(f) == [stack EXCEPT ![Len(stack)] = f]

\* the top frame, with events appended to its trace
Did(f, evs) == [f EXCEPT !.trace = @ \o evs]

\* the stack stk after its top frame has returned (res = "ok") or thrown
\* (res = "throw") to the frame awaiting it, which notes the events evs
ReturnFrom(stk, res, evs) ==
  IF Len(stk) = 1 THEN <<>>
  ELSE LET c == stk[Len(stk) - 1]
       IN  Append(SubSeq(stk, 1, Len(stk) - 2),
                  [c EXCEPT !.pc = IF c.pc = "awaitPlan" THEN "plan"
                                   ELSE IF c.pc = "awaitMl" THEN "mlEnd" ELSE "resume",
                            !.ret = res, !.trace = @ \o evs])

Return(res, evs) == ReturnFrom(stack, res, evs)

\* the frames of stk, each noting that history has been cleared under it
CutAll(stk) == [i \in 1..Len(stk) |-> [stk[i] EXCEPT !.cut = TRUE]]

\* the activation starts now: note the history, snapshot and mode it finds
Started(f) ==
  [f EXCEPT !.base = Len(history), !.mem0 = memFile, !.mode0 = currentProvider,
            !.reg0 = mcpServers, !.ml0 = multilineMode, !.buf0 = multilineBuffer]

\* callGoogle: if (pendingImage) parts.push(pendingImage)
Attached(pending) == IF pending THEN "sent" ELSE "none"

\* callDeepSeek and the requests of the agent loop: the messages hold text
\* only; an image the failed primary call of the request took is "lost"
NotAttached(pending, img) ==
  IF pending THEN "kept" ELSE IF img \in {"sent", "lost"} THEN "lost" ELSE "none"

Running == ~exited /\ stack # <<>>

\* the event loop can deliver an input event: nothing runs, or the running
\* dispatch is suspended at an awaited I/O call
IOAwaits ==
  {"awaitG", "awaitDS", "awaitDS2", "awaitFs", "awaitFetch", "awaitLaunch",
   "awaitNewPage", "awaitGoto", "awaitEval"}

Suspended == stack # <<>> /\ Top.pc \in IOAwaits

(* ------------------------------------------------- provider requests *)
\* a message of a provider request: the role it is sent under, its text, and
\* the role of the Turn it was made from ("" when it was made from no Turn)
Message(role, text, of) == [role |-> role, text |-> text, of |-> of]

SystemInstructions == <<"SYSTEM_INSTRUCTIONS">>

\* the name each backend has for the role of the model
ModelRole(backend) == IF backend = "google" THEN "model" ELSE "assistant"

\* callGoogle and the Gemini branch of the agent loop: a Turn of the chat history
GoogleContent(t) ==
  Message(IF t.role = "model" THEN "model" ELSE "user",
          (IF t.role = "system" THEN <<"SYSTEM INFO: ">> ELSE <<>>) \o t.content,
          t.role)

\* callGoogle: the history, without its last Turn unless the prompt is the
\* system's, then the line as the message sent
GoogleChatRequest(h, line, sys) ==
  LET past == IF sys \/ h = <<>> THEN h ELSE SubSeq(h, 1, Len(h) - 1)
  IN  [k \in DOMAIN past |-> GoogleContent(past[k])] \o <<Message("user", line, "")>>

\* callDeepSeek: a Turn of the history
DeepseekChatMessage(t) ==
  Message(IF t.role = "model" THEN "assistant" ELSE t.role, t.content, t.role)

\* callDeepSeek: the system instructions, the history, and the line when the
\* prompt is the system's
DeepseekChatRequest(h, line, sys) ==
  <<Message("system", SystemInstructions, "")>>
    \o [k \in DOMAIN h |-> DeepseekChatMessage(h[k])]
    \o (IF sys THEN <<Message("user", line, "")>> ELSE <<>>)

\* the DeepSeek branch of the agent loop: a Turn of the history
DeepseekTaskMessage(t) ==
  Message(IF t.role = "model" THEN "assistant"
          ELSE IF t.role = "system" THEN "user" ELSE t.role,
          t.content, t.role)

DeepseekTaskRequest(h) ==
  <<Message("system", SystemInstructions, "")>>
    \o [k \in DOMAIN h |-> DeepseekTaskMessage(h[k])]

\* the Gemini branch of the agent loop: the history without its last Turn,
\* then the last Turn as the message sent, which goes under the role user
GoogleTaskRequest(h) ==
  LET past == SubSeq(h, 1, Len(h) - 1)
      lastMsg == h[Len(h)]
  IN  [k \in DOMAIN past |-> GoogleContent(past[k])]
        \o <<Message("user", GoogleContent(lastMsg).text, lastMsg.role)>>

\* the request of the agent loop for the backend b
TaskRequest(b, h) == IF b = "google" THEN GoogleTaskRequest(h) ELSE DeepseekTaskRequest(h)

(* ------------------------------------------------------ the environment *)
\* what a backend may answer to a STEP of the agent loop; an answer that
\* makes the loop dispatch a command needs room for the handler's frame
DispatchingResponses ==
  {<<"/ls", " ", ".">>, <<"/delete", " ", "f">>, <<"/task", " ", "g">>,
   <<"/clear">>, <<"/quit">>}

PlainResponses == {<<"/done">>, <<" ", "/DONE", "\n">>, <<"hello">>}

\* an action text whose command is in no table
UnknownResponses == {<<"/nope">>}

TaskResponses ==
  PlainResponses \cup (IF Len(stack) < MaxDepth THEN DispatchingResponses ELSE {})

\* what fs.promises.readdir may list
Listings == {<<"a, b">>}

\* what each backend may answer to a chat request; a JSON plan makes
\* handleInput dispatch its steps, which needs room for their frames
GoogleAnswers ==
  {<<"hi from gemini">>} \cup
  (IF Len(stack) < MaxDepth THEN {<<"[", "\"", "/clear", "\"", "]">>} ELSE {})

DeepseekAnswers == {<<"hi from deepseek">>}

ChatAnswers(backend) == IF backend = "google" THEN GoogleAnswers ELSE DeepseekAnswers

\* the lines the operator may enter
UserLines ==
  {<<"/task", " ", "g">>, <<"hello">>, <<"/provider", " ", "AUTO">>,
   <<"/provider", " ", "deepseek">>, <<"/clear">>}

\* more lines the operator may enter: an image, /provider without a mode,
\* a command that is in no table
CommandLines ==
  {<<"/task", " ", "g">>, <<"hello">>, <<"/provider", " ", "AUTO">>,
   <<"/image", " ", "f">>, <<"/provider">>, <<"/provider", " ", "bogus">>,
   <<"/nope">>}

\* the lines of a session that is stopped and started again
RestartLines == {<<"/task", " ", "g">>, <<"hello">>, <<"/clear">>}

\* the lines that use the tool registry
McpLines ==
  {<<"/mcp_add", " ", "a", " ", "http://a">>, <<"/mcp_add", " ", "b">>, <<"/mcp_tools">>,
   <<"/mcp_call", " ", "a", " ", "t">>, <<"/mcp_call", " ", "files", " ", "t", " ", "x">>,
   <<"/mcp_call", " ", "zz", " ", "t">>, <<"/mcp_call", " ", "constructor", " ", "t">>,
   <<"/mcp_call", " ", "a">>}

\* the lines of multiline input, a chat line and an ordinary command
MultilineLines ==
  {<<"/multiline">>, <<"<<<">>, <<">>>">>, <<"hello">>, <<"/provider", " ", "deepseek">>}

\* the lines that drive the browser, and a goal for the agent loop
BrowserLines ==
  {<<"/google", " ", "q", " ", "x">>, <<"/browser">>, <<"/visit", " ", "u">>,
   <<"/dump">>, <<"/task", " ", "g">>}

\* the action texts that drive the browser, and the completion token
BrowserResponses == {<<"/dump">>, <<"/google", " ", "q">>, <<"/visit", " ", "u">>, <<"/done">>}

\* the lines of a session that writes files, the snapshot's among them
FileLines ==
  {<<"hello">>, <<"/task", " ", "g">>, <<"/clear">>, <<"/write", " ", "notes", " ", "x">>,
   <<"/write", " ", "bex-memory.json", " ", "x", " ", "y">>}

\* the action texts that write files
FileResponses ==
  {<<"/done">>, <<"/write", " ", "bex-memory.json", " ", "x">>, <<"/write", " ", "notes">>}

\* the lines whose dispatch awaits nothing: their handler runs to completion
\* inside the 'line' event
SyncLines == {<<"/provider", " ", "AUTO">>, <<"/provider", " ", "deepseek">>, <<"/clear">>}

McpSyncLines == {<<"/mcp_add", " ", "b", " ", "http://b">>, <<"/clear">>}

\* what a tool server may do with GET /tools: answer a list of tools, answer
\* something that is no list, answer a non-success status, not answer
ToolsOutcomes == {"list", "notlist", "status", "down"}

\* what a tool server may do with POST /tools/:tool: answer a result, answer
\* a non-success status with a JSON error body, answer a non-success status
\* with a body that is no JSON, not answer
CallOutcomes == {"result", "errorJson", "errorText", "down"}

\* the base endpoint of the local tool server
LocalUrl == <<"http://localhost:4000">>

\* JSON.stringify of what a server answered
ToolsJson == <<"[{", "\"", "name", "\"", ":", "\"", "read_file", "\"", "}]">>

ResultJson == <<"{", "\"", "content", "\"", ":", "\"", "abc", "\"", "}">>

ErrorJson == <<"{", "\"", "error", "\"", ":", "\"", "Access denied", "\"", "}">>

\* the line handleInput is given by the startup sequence
Greeting == <<"Greetings!">>

(* ------------------------------------------------- commands['/task'] *)
\* what an action leaves alone when it changes the stack only
StackOnly ==
  UNCHANGED <<history, memFile, currentProvider, pendingImage, hasGoogle,
              hasDeepseek, exited, confirmPending, nCalls, nLines,
                 mcpServers, boot, multiline, browsing, outside>>

InTask == Running /\ Top.kind = "cmd" /\ Top.cmd = "/task"

\* mutant: while (++step < maxSteps)
LoopContinuesPreIncrement(step) == step + 1 < maxSteps

\* mutant: while (step++ <= maxSteps)
LoopContinuesOneMore(step) == step <= maxSteps

\* while (step++ < maxSteps): the test
LoopContinues(step) == step < maxSteps

\* the backend a STEP calls: deepseek when currentProvider is 'deepseek', or
\* 'auto' without a Gemini model; otherwise google
TaskBackend(mode, gemini) ==
  IF mode = "deepseek" \/ (mode = "auto" /\ ~gemini) THEN "deepseek" ELSE "google"

\* the request of a STEP cannot be built: the client is missing, or (google)
\* history is empty and lastMsg.role is read of undefined
TaskThrowsBeforeCall(backend) ==
  IF backend = "deepseek" THEN ~hasDeepseek
  ELSE ~hasGoogle \/ history = <<>>

\* mutant: command === '/done', without toLowerCase
IsDoneCaseSensitive(command) == command = <<"/done">>

\* the action text is the completion token
IsDone(command) == ToLower(command) = <<"/done">>

\* mutant: the catch block goes on with the next STEP
AfterCatchContinue == "test"

\* where the catch block of a STEP goes: break leaves the loop
AfterCatch == "exit"

\* mutant: a loop that was aborted rejects
TaskOutcomeRaises(term) == IF term = "ABORTED" THEN "throw" ELSE "ok"

\* what the handler gives its caller when the loop has ended: the promise
\* resolves, in every terminal state
TaskOutcome(term) == "ok"

\* the frame of a loop that has ended
TaskEnds(f, term) ==
  [f EXCEPT !.pc = "exit", !.term = term, !.out = TaskOutcome(term)]

\* history.push of the goal and the operating contract; let step = 0
TaskStart ==
  /\ InTask /\ Top.pc = "enter"
  /\ history' = Append(history, GoalTurn(Join(Top.args)))
  /\ stack' = SetTop(Did([Started(Top) EXCEPT !.pc = "test", !.step = 0], <<"user">>))
  /\ UNCHANGED <<memFile, currentProvider, pendingImage, hasGoogle, hasDeepseek,
                 exited, confirmPending, nCalls, nLines,
                 mcpServers, boot, multiline, browsing, outside>>

\* while (step++ < maxSteps)
TaskTest ==
  /\ InTask /\ Top.pc = "test"
  /\ stack' = SetTop(
       LET f == [Top EXCEPT !.step = @ + 1]
       IN  IF LoopContinues(Top.step) THEN [f EXCEPT !.pc = "try"]
           ELSE TaskEnds(f, "MAX_STEPS_REACHED"))
  /\ StackOnly

\* try { ... await the backend's call
TaskTry ==
  /\ InTask /\ Top.pc = "try"
  /\ LET b == TaskBackend(currentProvider, hasGoogle)
     IN  stack' = SetTop(
           IF TaskThrowsBeforeCall(b)
           THEN Did([Top EXCEPT !.pc = "catch", !.modeC = currentProvider], <<"throw">>)
           ELSE Did([Top EXCEPT !.pc = IF b = "google" THEN "awaitG" ELSE "awaitDS",
                                !.use = b, !.modeC = currentProvider,
                                !.img = NotAttached(pendingImage, "none"),
                                !.req = TaskRequest(b, history)],
                    <<IF b = "google" THEN "call:google" ELSE "call:deepseek">>))
  /\ StackOnly

\* the awaited call throws
TaskCallFails ==
  /\ InTask /\ Top.pc \in {"awaitG", "awaitDS"}
  /\ nCalls < MaxCalls
  /\ nCalls' = nCalls + 1
  /\ stack' = SetTop(Did([Top EXCEPT !.pc = "catch"], <<"fail">>))
  /\ UNCHANGED <<history, memFile, currentProvider, pendingImage, hasGoogle,
                 hasDeepseek, exited, confirmPending, nLines,
                 mcpServers, boot, multiline, browsing, outside>>

\* the frame of the loop after the action text command has been pushed as a
\* model Turn, and the frame of the handler it dispatches, if any
TaskAfterAction(f, command) ==
  LET g == Did([f EXCEPT !.resp = command, !.acts = Append(@, command)], <<"model">>)
  IN  IF IsDone(command) THEN <<TaskEnds(g, "DONE")>>
      ELSE IF StartsWithSlash(command)
      THEN LET parts == Split(command)
               cmd == CmdKey(parts[1])
           IN  IF cmd # ""
               THEN <<Did([g EXCEPT !.pc = "awaitCmd"], <<"dispatch">>),
                      CmdFrame(cmd, Tail(parts))>>
               ELSE <<Did([g EXCEPT !.pc = "test"], <<"system">>)>>
      ELSE <<[g EXCEPT !.pc = "test"]>>

\* mutant: the loop notes every action it does not run
TaskTurnsNoted(command) ==
  IF IsDone(command) THEN <<Turn("model", command)>>
  ELSE <<Turn("model", command), UnknownTurn>>

\* the Turns a STEP pushes for the action text command
TaskTurns(command) ==
  IF ~IsDone(command) /\ StartsWithSlash(command) /\ CmdKey(Split(command)[1]) = ""
  THEN <<Turn("model", command), UnknownTurn>>
  ELSE <<Turn("model", command)>>

\* the awaited call returns one of responses as the action text: trim, push,
\* /done or dispatch
TaskCallReturnsFrom(responses) ==
  /\ InTask /\ Top.pc \in {"awaitG", "awaitDS"}
  /\ nCalls < MaxCalls
  /\ nCalls' = nCalls + 1
  /\ \E response \in responses :
       LET command == Trim(response)
       IN  /\ history' = history \o TaskTurns(command)
           /\ stack' = Below \o TaskAfterAction(Top, command)
  /\ UNCHANGED <<memFile, currentProvider, pendingImage, hasGoogle, hasDeepseek,
                 exited, confirmPending, nLines, mcpServers, boot, multiline, browsing, outside>>

TaskCallReturns == TaskCallReturnsFrom(TaskResponses)

\* the dispatched handler has returned or thrown
TaskResume ==
  /\ InTask /\ Top.pc = "resume"
  /\ stack' = SetTop(IF Top.ret = "throw"
                     THEN Did([Top EXCEPT !.pc = "catch", !.ret = "none"], <<"threw">>)
                     ELSE [Top EXCEPT !.pc = "test", !.ret = "none"])
  /\ StackOnly

\* catch (e) { spinner.fail(e.message); break; }
TaskCatch ==
  /\ InTask /\ Top.pc = "catch"
  /\ stack' = SetTop(IF AfterCatch = "exit" THEN TaskEnds(Top, "ABORTED")
                     ELSE [Top EXCEPT !.pc = AfterCatch])
  /\ StackOnly

\* the loop is left and the handler returns to its caller
TaskExit ==
  /\ InTask /\ Top.pc = "exit"
  /\ stack' = Return(Top.out, <<>>)
  /\ StackOnly

(* ------------------------------------------------- the other handlers *)
InCmd(c) == Running /\ Top.kind = "cmd" /\ Top.cmd = c

\* mutant: the snapshot is left in place
UnlinkSkipped(file) == file

\* if (fs.existsSync(MEMORY_FILE)) fs.unlinkSync(MEMORY_FILE)
Unlinked(file) == NoFile

(* commands['/clear'] *)
CmdClear ==
  /\ InCmd("/clear") /\ Top.pc = "enter"
  /\ history' = <<>>
  /\ pendingImage' = FALSE
  /\ memFile' = Unlinked(memFile)
  /\ stack' = ReturnFrom(CutAll(stack), "ok", <<"cleared">>)
  /\ UNCHANGED <<currentProvider, hasGoogle, hasDeepseek, exited, confirmPending,
                 nCalls, nLines,
                 mcpServers, boot, multiline, browsing, outside>>

\* mutant: the argument is not checked against the three modes
ProviderAfterUnchecked(args) ==
  IF args # <<>> THEN ToLower(args[1])[1] ELSE currentProvider

\* commands['/provider']: the mode after /provider args
ProviderAfter(args) ==
  IF args # <<>> /\ ToLower(args[1]) \in {<<"google">>, <<"deepseek">>, <<"auto">>}
  THEN ToLower(args[1])[1]
  ELSE currentProvider

CmdProvider ==
  /\ InCmd("/provider") /\ Top.pc = "enter"
  /\ currentProvider' = ProviderAfter(Top.args)
  /\ stack' = Return("ok", <<>>)
  /\ UNCHANGED <<history, memFile, pendingImage, hasGoogle, hasDeepseek, exited,
                 confirmPending, nCalls, nLines,
                 mcpServers, boot, multiline, browsing, outside>>

(* commands['/multiline']: toggle the mode, empty the buffer *)
CmdMultiline ==
  /\ InCmd("/multiline") /\ Top.pc = "enter"
  /\ multilineMode' = ~multilineMode
  /\ multilineBuffer' = <<>>
  /\ stack' = Return("ok", <<>>)
  /\ UNCHANGED <<history, memFile, currentProvider, pendingImage, hasGoogle,
                 hasDeepseek, exited, confirmPending, nCalls, nLines, mcpServers,
                 boot, browsing, outside>>

(* commands['/quit']: process.exit(0) *)
CmdQuit ==
  /\ InCmd("/quit") /\ Top.pc = "enter"
  /\ exited' = TRUE
  /\ UNCHANGED <<history, memFile, currentProvider, pendingImage, hasGoogle,
                 hasDeepseek, stack, confirmPending, nCalls, nLines,
                 mcpServers, boot, multiline, browsing, outside>>

(* commands['/ls']: await fs.promises.readdir(dir) *)
LsDir(args) == IF args # <<>> /\ args[1] # <<>> THEN args[1] ELSE <<".">>

CmdLsEnter ==
  /\ InCmd("/ls") /\ Top.pc = "enter"
  /\ stack' = SetTop([Top EXCEPT !.pc = "awaitFs"])
  /\ StackOnly

\* readdir lists the directory: the listing is pushed as a system Turn
CmdLsListed ==
  /\ InCmd("/ls") /\ Top.pc = "awaitFs"
  /\ \E files \in Listings : history' = Append(history, LsTurn(LsDir(Top.args), files))
  /\ stack' = Return("ok", <<"system">>)
  /\ UNCHANGED <<memFile, currentProvider, pendingImage, hasGoogle, hasDeepseek,
                 exited, confirmPending, nCalls, nLines,
                 mcpServers, boot, multiline, browsing, outside>>

\* readdir throws: catch (e) { console.log(e.message) }
CmdLsFails ==
  /\ InCmd("/ls") /\ Top.pc = "awaitFs"
  /\ stack' = Return("ok", <<"error">>)
  /\ StackOnly

(* commands['/image']: await fs.promises.readFile(file) *)
CmdImageEnter ==
  /\ InCmd("/image") /\ Top.pc = "enter"
  /\ stack' = IF Top.args = <<>> \/ Top.args[1] = <<>> THEN Return("ok", <<"error">>)
              ELSE SetTop([Top EXCEPT !.pc = "awaitFs"])
  /\ StackOnly

\* the file is read: it is queued for the next prompt
CmdImageRead ==
  /\ InCmd("/image") /\ Top.pc = "awaitFs"
  /\ pendingImage' = TRUE
  /\ stack' = Return("ok", <<"image">>)
  /\ UNCHANGED <<history, memFile, currentProvider, hasGoogle, hasDeepseek, exited,
                 confirmPending, nCalls, nLines, mcpServers, boot, multiline, browsing, outside>>

\* readFile throws: catch (e) { console.log(e.message) }
CmdImageFails ==
  /\ InCmd("/image") /\ Top.pc = "awaitFs"
  /\ stack' = Return("ok", <<"error">>)
  /\ StackOnly

(* commands['/write']: await fs.promises.writeFile(file, content) *)
\* const MEMORY_FILE = 'bex-memory.json', in the working directory
MEMORY_FILE == <<"bex-memory.json">>

CmdWriteEnter ==
  /\ InCmd("/write") /\ Top.pc = "enter"
  /\ stack' = IF Top.args = <<>> \/ Top.args[1] = <<>> THEN Return("ok", <<"error">>)
              ELSE SetTop([Top EXCEPT !.pc = "awaitFs"])
  /\ StackOnly

\* the file is written: args.slice(1).join(' ') is its content now; of the
\* files of the directory only the snapshot is kept here
CmdWriteDone ==
  /\ InCmd("/write") /\ Top.pc = "awaitFs"
  /\ memFile' = IF Top.args[1] = MEMORY_FILE
                THEN [exists |-> TRUE, text |-> Join(Tail(Top.args))]
                ELSE memFile
  /\ stack' = Return("ok", <<"wrote">>)
  /\ UNCHANGED <<history, currentProvider, pendingImage, hasGoogle, hasDeepseek,
                 exited, confirmPending, nCalls, nLines,
                 mcpServers, boot, multiline, browsing, outside>>

\* writeFile throws: catch (e) { console.log(e.message) }
CmdWriteFails ==
  /\ InCmd("/write") /\ Top.pc = "awaitFs"
  /\ stack' = Return("ok", <<"error">>)
  /\ StackOnly

(* commands['/delete']: await fs.promises.access(file), then the question *)
CmdDeleteEnter ==
  /\ InCmd("/delete") /\ Top.pc = "enter"
  /\ stack' = IF Top.args = <<>> \/ Top.args[1] = <<>> THEN Return("ok", <<"error">>)
              ELSE SetTop([Top EXCEPT !.pc = "awaitFs"])
  /\ StackOnly

\* the file is there: rlConfirm.question is registered and the handler returns
CmdDeleteAsks ==
  /\ InCmd("/delete") /\ Top.pc = "awaitFs"
  /\ confirmPending' = TRUE
  /\ stack' = Return("ok", <<>>)
  /\ UNCHANGED <<history, memFile, currentProvider, pendingImage, hasGoogle,
                 hasDeepseek, exited, nCalls, nLines,
                 mcpServers, boot, multiline, browsing, outside>>

\* the file is not there
CmdDeleteMissing ==
  /\ InCmd("/delete") /\ Top.pc = "awaitFs"
  /\ stack' = Return("ok", <<"error">>)
  /\ StackOnly

\* the operator answers the question: the callback unlinks the file or cancels
ConfirmAnswered ==
  /\ ~exited /\ confirmPending
  /\ stack = <<>> \/ Suspended
  /\ confirmPending' = FALSE
  /\ UNCHANGED <<history, memFile, currentProvider, pendingImage, hasGoogle,
                 hasDeepseek, stack, exited, nCalls, nLines,
                 mcpServers, boot, multiline, browsing, outside>>

(* ---------------------------------------------------------- the browser *)
\* let page = null
NoPage == [set |-> FALSE, url |-> <<>>, loading |-> FALSE]

\* browser.newPage(): a blank document
BlankPage == [set |-> TRUE, url |-> <<"about:blank">>, loading |-> FALSE]

\* document.body.innerText of the document at url
InnerText(url) == IF url = <<"about:blank">> THEN <<>> ELSE <<"text of ">> \o url

\* the document the page shows after a navigation to url has failed: the
\* one it showed, or the browser's error page
AfterFailedGoto(url) == {url, <<"chrome-error://chromewebdata/">>}

\* the system Turn pushed by commands['/dump']
DumpTurn(text) == Turn("system", <<"Browser Page Content:", "\n">> \o text)

\* encodeURIComponent on the tokens of a query: whitespace is escaped
EncodeURIComponent(s) ==
  [k \in DOMAIN s |-> IF s[k] = " " THEN "%20" ELSE IF s[k] = "\n" THEN "%0A" ELSE s[k]]

\* `https://www.google.com/search?q=${encodeURIComponent(query)}`
SearchUrl(args) == <<"https://www.google.com/search?q=">> \o EncodeURIComponent(Join(args))

(* commands['/browser']: await puppeteer.launch(), await browser.newPage() *)
CmdBrowserEnter ==
  /\ InCmd("/browser") /\ Top.pc = "enter"
  /\ stack' = IF browser THEN Return("ok", <<"already">>)
              ELSE SetTop([Top EXCEPT !.pc = "awaitLaunch"])
  /\ StackOnly

\* the browser is launched: browser = ...; then browser.newPage() is awaited
CmdBrowserLaunched ==
  /\ InCmd("/browser") /\ Top.pc = "awaitLaunch"
  /\ browser' = TRUE
  /\ stack' = SetTop([Top EXCEPT !.pc = "awaitNewPage"])
  /\ UNCHANGED <<history, memFile, currentProvider, pendingImage, hasGoogle,
                 hasDeepseek, exited, confirmPending, nCalls, nLines,
                 mcpServers, boot, multiline, page, outside>>

\* the page is opened: page = ...
CmdBrowserPaged ==
  /\ InCmd("/browser") /\ Top.pc = "awaitNewPage"
  /\ page' = BlankPage
  /\ stack' = Return("ok", <<"launched">>)
  /\ UNCHANGED <<history, memFile, currentProvider, pendingImage, hasGoogle,
                 hasDeepseek, exited, confirmPending, nCalls, nLines,
                 mcpServers, boot, multiline, browser, outside>>

\* launch or newPage throws: catch (e) { spinner.fail(e.message) }
CmdBrowserFails ==
  /\ InCmd("/browser") /\ Top.pc \in {"awaitLaunch", "awaitNewPage"}
  /\ stack' = Return("ok", <<"error">>)
  /\ StackOnly

(* commands['/visit']: await page.goto(args[0]) *)
CmdVisitEnter ==
  /\ InCmd("/visit") /\ Top.pc = "enter"
  /\ IF ~page.set \/ Top.args = <<>>
     THEN /\ stack' = Return("ok", <<"error">>)
          /\ UNCHANGED page
     ELSE /\ stack' = SetTop([Top EXCEPT !.pc = "awaitGoto"])
          /\ page' = [page EXCEPT !.loading = TRUE]
  /\ UNCHANGED <<history, memFile, currentProvider, pendingImage, hasGoogle,
                 hasDeepseek, exited, confirmPending, nCalls, nLines,
                 mcpServers, boot, multiline, browser, outside>>

\* the navigation has completed: the page shows the document at args[0]
CmdVisitDone ==
  /\ InCmd("/visit") /\ Top.pc = "awaitGoto"
  /\ page' = [page EXCEPT !.url = Top.args[1], !.loading = FALSE]
  /\ stack' = Return("ok", <<"visited">>)
  /\ UNCHANGED <<history, memFile, currentProvider, pendingImage, hasGoogle,
                 hasDeepseek, exited, confirmPending, nCalls, nLines,
                 mcpServers, boot, multiline, browser, outside>>

\* goto throws: catch (e) { console.log(e.message) }
CmdVisitFails ==
  /\ InCmd("/visit") /\ Top.pc = "awaitGoto"
  /\ \E url \in AfterFailedGoto(page.url) :
       page' = [page EXCEPT !.url = url, !.loading = FALSE]
  /\ stack' = Return("ok", <<"error">>)
  /\ UNCHANGED <<history, memFile, currentProvider, pendingImage, hasGoogle,
                 hasDeepseek, exited, confirmPending, nCalls, nLines,
                 mcpServers, boot, multiline, browser, outside>>

(* commands['/dump']: await page.evaluate(...), outside any try *)
CmdDumpEnter ==
  /\ InCmd("/dump") /\ Top.pc = "enter"
  /\ stack' = IF ~page.set THEN Return("ok", <<"error">>)
              ELSE SetTop(Did([Top EXCEPT !.pc = "awaitEval"],
                              <<IF page.loading THEN "loading" ELSE "loaded">>))
  /\ StackOnly

\* the text of the document is pushed as a system Turn
CmdDumpDone ==
  /\ InCmd("/dump") /\ Top.pc = "awaitEval"
  /\ history' = Append(history, DumpTurn(InnerText(page.url)))
  /\ stack' = Return("ok", <<"system">>)
  /\ UNCHANGED <<memFile, currentProvider, pendingImage, hasGoogle, hasDeepseek,
                 exited, confirmPending, nCalls, nLines,
                 mcpServers, boot, multiline, browsing, outside>>

\* evaluate throws: the handler throws to the code that awaited it
CmdDumpFails ==
  /\ InCmd("/dump") /\ Top.pc = "awaitEval"
  /\ stack' = Return("throw", <<>>)
  /\ StackOnly

(* commands['/google']: /browser when there is no browser, /visit, /dump *)
\* mutant: the text is extracted before the navigation
GoogleStepsDumpFirst == <<"/dump", "/visit">>

\* the handlers commands['/google'] awaits after the launch, in order
GoogleSteps == <<"/visit", "/dump">>

\* the frame f of /google awaiting its k-th handler, and that handler's frame
GoogleCall(f, k) ==
  <<Did([f EXCEPT !.pc = "awaitCmd", !.step = k, !.ret = "none"], <<GoogleSteps[k]>>),
    CmdFrame(GoogleSteps[k],
             IF GoogleSteps[k] = "/visit" THEN <<SearchUrl(f.args)>> ELSE <<>>)>>

\* if (!browser) await commands['/browser'](); otherwise on to /visit
CmdGoogleEnter ==
  /\ InCmd("/google") /\ Top.pc = "enter"
  /\ stack' = Below \o
       (IF ~browser
        THEN <<Did([Started(Top) EXCEPT !.pc = "awaitCmd", !.step = 0], <<"/browser">>),
               CmdFrame("/browser", <<>>)>>
        ELSE GoogleCall(Started(Top), 1))
  /\ StackOnly

\* the awaited handler has returned: the next one is called, or /google
\* returns; it has thrown: /google throws to the code that awaited it
CmdGoogleResume ==
  /\ InCmd("/google") /\ Top.pc = "resume"
  /\ stack' = IF Top.ret = "throw" THEN Return("throw", <<>>)
              ELSE IF Top.step < Len(GoogleSteps)
              THEN Below \o GoogleCall(Top, Top.step + 1)
              ELSE Return("ok", <<>>)
  /\ StackOnly

(* ------------------------------------------------------ the tool client *)
\* the registry is the object mcpServers: its own properties in the order
\* they were first set, each a label and a base endpoint
Server(label, url) == [label |-> label, url |-> url]

Labels(reg) == [i \in DOMAIN reg |-> reg[i].label]

Has(reg, label) == \E i \in DOMAIN reg : reg[i].label = label

\* mcpServers[args[0]] = args[1]
McpAdded(reg, args) ==
  IF Len(args) < 2 THEN reg
  ELSE IF Has(reg, args[1])
  THEN [i \in DOMAIN reg |->
          IF reg[i].label = args[1] THEN Server(args[1], args[2]) ELSE reg[i]]
  ELSE Append(reg, Server(args[1], args[2]))

\* the properties every object inherits: mcpServers[label] finds them too
InheritedKeys == {<<"constructor">>, <<"toString">>, <<"__proto__">>}

\* const url = mcpServers[label]: the endpoint registered for the label, the
\* inherited value as the template literal prints it, or nothing (undefined)
Lookup(reg, label) ==
  IF Has(reg, label)
  THEN reg[CHOOSE i \in DOMAIN reg : reg[i].label = label].url
  ELSE IF label \in InheritedKeys THEN <<"function Object() { [native code] }">>
  ELSE <<>>

\* fetch takes the text for an absolute URL; it throws for any other
IsUrl(url) == url \in {LocalUrl, <<"http://a">>, <<"http://b">>}

\* an entry of the log of a tool handler
Note(ev, label, what) == [ev |-> ev, label |-> label, what |-> what]

CatalogTurn(label, tools) ==
  Turn("system", <<"Available tools on ">> \o label \o <<": ">> \o tools)

ResultTurn(tool, json) ==
  Turn("system", <<"MCP Call ">> \o tool \o <<" result: ">> \o json)

(* commands['/mcp_add'] *)
CmdMcpAdd ==
  /\ InCmd("/mcp_add") /\ Top.pc = "enter"
  /\ mcpServers' = McpAdded(mcpServers, Top.args)
  /\ stack' = Return("ok", IF Len(Top.args) < 2 THEN <<"error">> ELSE <<>>)
  /\ UNCHANGED <<history, memFile, currentProvider, pendingImage, hasGoogle,
                 hasDeepseek, exited, confirmPending, nCalls, nLines, boot, multiline, browsing, outside>>

\* the frame of /mcp_tools about to fetch the tools of the first entry of todo
Querying(f, todo) ==
  [f EXCEPT !.pc = "awaitFetch", !.todo = todo,
            !.log = Append(@, Note("query", todo[1].label, ""))]

\* the frame of a tool handler that is about to return
McpEnds(f) == [f EXCEPT !.pc = "exit", !.todo = <<>>]

(* commands['/mcp_tools']: for (const [label, url] of Object.entries(mcpServers)) *)
CmdMcpToolsEnter ==
  /\ InCmd("/mcp_tools") /\ Top.pc = "enter"
  /\ stack' = SetTop(IF mcpServers = <<>>
                     THEN McpEnds([Started(Top) EXCEPT !.log = <<Note("notice", <<>>, "")>>])
                     ELSE Querying(Started(Top), mcpServers))
  /\ StackOnly

\* what /mcp_tools reports for the answer of a server: the catalog, that the
\* answer is no list, or the error it caught
ToolsReport(outcome) ==
  CASE outcome = "list" -> "catalog"
    [] outcome = "notlist" -> "invalid"
    [] OTHER -> "error"

\* mutant: an error ends the loop over the servers
RemainingUntilError(todo, outcome) ==
  IF ToolsReport(outcome) = "error" THEN <<>> ELSE Tail(todo)

\* the entries the loop has still to query after the answer of the first
Remaining(todo, outcome) == Tail(todo)

\* the awaited fetch of the first entry of todo is settled: the catalog is
\* pushed or the error is caught and reported, and the loop goes on
CmdMcpToolsAnswer ==
  /\ InCmd("/mcp_tools") /\ Top.pc = "awaitFetch"
  /\ \E outcome \in ToolsOutcomes :
       LET label == Top.todo[1].label
           f == [Top EXCEPT !.log = @ \o <<Note("answer", label, outcome),
                                           Note(ToolsReport(outcome), label, "")>>]
           rest == Remaining(Top.todo, outcome)
       IN  /\ history' = IF outcome = "list"
                         THEN Append(history, CatalogTurn(label, ToolsJson))
                         ELSE history
           /\ stack' = SetTop(IF rest = <<>>
                              THEN Did(McpEnds(f), IF outcome = "list" THEN <<"system">> ELSE <<>>)
                              ELSE Did(Querying(f, rest),
                                       IF outcome = "list" THEN <<"system">> ELSE <<>>))
  /\ UNCHANGED <<memFile, currentProvider, pendingImage, hasGoogle, hasDeepseek,
                 exited, confirmPending, nCalls, nLines, mcpServers, boot, multiline, browsing, outside>>

(* commands['/mcp_call']: usage, lookup of the label, then the POST *)
CmdMcpCallEnter ==
  /\ InCmd("/mcp_call") /\ Top.pc = "enter"
  /\ stack' = SetTop(
       LET f == Started(Top)
       IN  IF Len(Top.args) < 2
           THEN McpEnds([f EXCEPT !.log = <<Note("error", <<>>, "usage")>>])
           ELSE LET label == Top.args[1]
                    url == Lookup(mcpServers, label)
                IN  IF url = <<>>
                    THEN McpEnds([f EXCEPT !.log = <<Note("error", label, "unknown")>>])
                    ELSE IF ~IsUrl(url)
                    THEN McpEnds([f EXCEPT !.log = <<Note("error", label, "url")>>])
                    ELSE [f EXCEPT !.pc = "awaitFetch",
                                   !.log = <<Note("request", label, "")>>])
  /\ StackOnly

\* what /mcp_call shows for the answer of the server: the JSON body it got,
\* or the message of the error it caught
CallReport(outcome) ==
  CASE outcome = "result" -> Note("shown", <<>>, "result")
    [] outcome = "errorJson" -> Note("shown", <<>>, "error")
    [] outcome = "errorText" -> Note("error", <<>>, "parse")
    [] OTHER -> Note("error", <<>>, "network")

\* the JSON body res.json() gives for the answer, when it gives one
CallJson(outcome) ==
  CASE outcome = "result" -> ResultJson
    [] outcome = "errorJson" -> ErrorJson
    [] OTHER -> <<>>

\* the awaited POST is settled: whatever JSON the server sent is shown and
\* pushed as the result, whatever was thrown is reported
CmdMcpCallAnswer ==
  /\ InCmd("/mcp_call") /\ Top.pc = "awaitFetch"
  /\ \E outcome \in CallOutcomes :
       LET label == Top.args[1]
           f == [Top EXCEPT !.log = @ \o <<Note("answer", label, outcome),
                                           [CallReport(outcome) EXCEPT !.label = label]>>]
           json == CallJson(outcome)
       IN  /\ history' = IF json # <<>>
                         THEN Append(history, ResultTurn(Top.args[2], json))
                         ELSE history
           /\ stack' = SetTop(Did(McpEnds(f), IF json # <<>> THEN <<"system">> ELSE <<>>))
  /\ UNCHANGED <<memFile, currentProvider, pendingImage, hasGoogle, hasDeepseek,
                 exited, confirmPending, nCalls, nLines, mcpServers, boot, multiline, browsing, outside>>

\* the tool handler returns to its caller
CmdMcpExit ==
  /\ Running /\ Top.kind = "cmd" /\ Top.cmd \in {"/mcp_tools", "/mcp_call"}
  /\ Top.pc = "exit"
  /\ stack' = Return("ok", <<>>)
  /\ StackOnly

(* ------------------------------------------------------- handleInput *)
InHi == Running /\ Top.kind = "hi"

\* response.trim().startsWith('[') && response.trim().endsWith(']')
IsPlanText(r) == LET t == Trim(r) IN t # <<>> /\ t[1] = "[" /\ t[Len(t)] = "]"

\* the index of the first quote token of s after its first token; 0 if none
ClosingQuote(s) ==
  LET js == {j \in 2..Len(s) : s[j] = "\""}
  IN  IF js = {} THEN 0 ELSE CHOOSE j \in js : \A k \in js : j <= k

\* JSON.parse of the items of an array of strings: <<parsed, items>>
RECURSIVE ParseItems(_, _)
ParseItems(s, acc) ==
  IF s = <<>> \/ Head(s) # "\"" \/ ClosingQuote(s) = 0 THEN <<FALSE, <<>>>>
  ELSE LET j == ClosingQuote(s)
           item == SubSeq(s, 2, j - 1)
           rest == SubSeq(s, j + 1, Len(s))
       IN  IF rest = <<"]">> THEN <<TRUE, Append(acc, item)>>
           ELSE IF rest # <<>> /\ Head(rest) = ","
                THEN ParseItems(Tail(rest), Append(acc, item))
                ELSE <<FALSE, <<>>>>

\* the steps of the plan a response holds; none when it is no JSON array
PlanSteps(r) ==
  LET t == Trim(r)
  IN  IF ~IsPlanText(r) THEN <<>>
      ELSE IF t = <<"[", "]">> THEN <<>>
      ELSE ParseItems(Tail(t), <<>>)[2]

\* let providerToUse = currentProvider; 'auto' defaults to google
ProviderToUse(mode) == IF mode = "auto" THEN "google" ELSE mode

\* the inner catch calls DeepSeek: automatic mode, and Google was tried
FallsBack(mode, use) == mode = "auto" /\ use = "google"

\* mutant: the model Turn replaces the conversation
ChatPushAlone(h, response) == <<[role |-> "model", content |-> response]>>

\* mutant: the model Turn is pushed by the fallback and again after it
ChatPushTwice(h, response) ==
  Append(Append(h, [role |-> "model", content |-> response]),
         [role |-> "model", content |-> response])

\* the history a successful chat request leaves: the model Turn is pushed
ChatPush(h, response) == Append(h, Turn("model", response))

\* the frame of a handleInput that is about to return
HiEnds(f, term) == [f EXCEPT !.pc = "done", !.term = term]

\* multiline mode: '<<<' empties the buffer, '>>>' gives the trimmed buffer to
\* handleInput and empties it afterwards, any other line is added to the buffer
HiMultiline ==
  /\ InHi /\ Top.pc = "enter" /\ multilineMode
  /\ LET line == Trim(Top.line)
         f == [Started(Top) EXCEPT !.line = line]
     IN  IF line = <<"<<<">>
         THEN /\ multilineBuffer' = <<>>
              /\ stack' = SetTop(HiEnds(f, "started"))
         ELSE IF line = <<">>>">>
         THEN IF Trim(multilineBuffer) # <<>>
              THEN /\ stack' = Below \o <<Did([f EXCEPT !.pc = "awaitMl"], <<"send">>),
                                             Frame("hi", Trim(multilineBuffer), Top.sys)>>
                   /\ UNCHANGED multilineBuffer
              ELSE /\ multilineBuffer' = <<>>
                   /\ stack' = SetTop(HiEnds(f, "ended"))
         ELSE /\ multilineBuffer' = multilineBuffer \o line \o <<"\n">>
              /\ stack' = SetTop(HiEnds(f, "buffered"))
  /\ UNCHANGED <<history, memFile, currentProvider, pendingImage, hasGoogle,
                 hasDeepseek, exited, confirmPending, nCalls, nLines, mcpServers,
                 boot, multilineMode, browsing, outside>>

\* the handleInput given the buffer has returned: multilineBuffer = ''
HiMultilineEnd ==
  /\ InHi /\ Top.pc = "mlEnd"
  /\ multilineBuffer' = <<>>
  /\ stack' = SetTop(HiEnds([Top EXCEPT !.ret = "none"], "ended"))
  /\ UNCHANGED <<history, memFile, currentProvider, pendingImage, hasGoogle,
                 hasDeepseek, exited, confirmPending, nCalls, nLines, mcpServers,
                 boot, multilineMode, browsing, outside>>

\* trim the line; empty line, command, or chat up to the provider call
HiEnter ==
  /\ InHi /\ Top.pc = "enter" /\ ~multilineMode
  /\ LET line == Trim(Top.line)
         f == [Started(Top) EXCEPT !.line = line]
     IN  IF line = <<>>
         THEN /\ stack' = SetTop(HiEnds(f, "empty"))
              /\ UNCHANGED history
         ELSE IF StartsWithSlash(line)
         THEN LET parts == Split(line)
                  cmd == CmdKey(parts[1])
              IN  /\ stack' = IF cmd # ""
                              THEN Below \o <<Did([f EXCEPT !.pc = "awaitCmd"], <<"dispatch">>),
                                              CmdFrame(cmd, Tail(parts))>>
                              ELSE SetTop(Did(HiEnds(f, "unknown"), <<"error">>))
                  /\ UNCHANGED history
         ELSE /\ history' = IF Top.sys THEN history
                             ELSE Append(history, Turn("user", line))
              /\ stack' = SetTop(Did([f EXCEPT !.pc = "primary",
                                       !.use = ProviderToUse(currentProvider)],
                                      IF Top.sys THEN <<>> ELSE <<"user">>))
  /\ UNCHANGED <<memFile, currentProvider, pendingImage, hasGoogle, hasDeepseek,
                 exited, confirmPending, nCalls, nLines,
                 mcpServers, boot, multiline, browsing, outside>>

\* callGoogle() or callDeepSeek(), up to the awaited call
HiPrimary ==
  /\ InHi /\ Top.pc = "primary"
  /\ IF Top.use = "google"
     THEN IF ~hasGoogle
          THEN /\ stack' = SetTop(Did([Top EXCEPT !.pc = "caught", !.err = "google"],
                                      <<"throw">>))
               /\ UNCHANGED pendingImage
          ELSE /\ stack' = SetTop(Did([Top EXCEPT !.pc = "awaitG",
                                                  !.img = Attached(pendingImage),
                                                  !.req = GoogleChatRequest(history, Top.line, Top.sys)],
                                      <<"call:google">>))
               /\ pendingImage' = FALSE
     ELSE /\ stack' = SetTop(IF ~hasDeepseek
                              THEN Did([Top EXCEPT !.pc = "caught", !.err = "deepseek"],
                                       <<"throw">>)
                              ELSE Did([Top EXCEPT !.pc = "awaitDS",
                                                    !.img = NotAttached(pendingImage, "none"),
                                                    !.req = DeepseekChatRequest(history, Top.line, Top.sys)],
                                       <<"call:deepseek">>))
          /\ UNCHANGED pendingImage
  /\ UNCHANGED <<history, memFile, currentProvider, hasGoogle, hasDeepseek, exited,
                 confirmPending, nCalls, nLines,
                 mcpServers, boot, multiline, browsing, outside>>

\* the awaited call of the primary throws
HiCallFails ==
  /\ InHi /\ Top.pc \in {"awaitG", "awaitDS"}
  /\ nCalls < MaxCalls
  /\ nCalls' = nCalls + 1
  /\ stack' = SetTop(Did([Top EXCEPT !.pc = "caught", !.err = Top.use], <<"fail">>))
  /\ UNCHANGED <<history, memFile, currentProvider, pendingImage, hasGoogle,
                 hasDeepseek, exited, confirmPending, nLines,
                 mcpServers, boot, multiline, browsing, outside>>

\* catch (err): fall back to DeepSeek in automatic mode, else rethrow
HiCaught ==
  /\ InHi /\ Top.pc = "caught"
  /\ stack' = SetTop(
       LET f == [Top EXCEPT !.modeC = currentProvider]
       IN  IF FallsBack(currentProvider, Top.use)
           THEN IF ~hasDeepseek
                THEN Did([f EXCEPT !.pc = "failed", !.err = "deepseek"], <<"throw">>)
                ELSE Did([f EXCEPT !.pc = "awaitDS2", !.img = NotAttached(pendingImage, Top.img),
                                   !.req = DeepseekChatRequest(history, Top.line, Top.sys)],
                         <<"call:deepseek">>)
           ELSE [f EXCEPT !.pc = "failed"])
  /\ StackOnly

\* the awaited call of the fallback throws
HiFallbackFails ==
  /\ InHi /\ Top.pc = "awaitDS2"
  /\ nCalls < MaxCalls
  /\ nCalls' = nCalls + 1
  /\ stack' = SetTop(Did([Top EXCEPT !.pc = "failed", !.err = "deepseek"], <<"fail">>))
  /\ UNCHANGED <<history, memFile, currentProvider, pendingImage, hasGoogle,
                 hasDeepseek, exited, confirmPending, nLines,
                 mcpServers, boot, multiline, browsing, outside>>

\* a call returns: push the model Turn, write the snapshot, look for a plan
HiCallReturns ==
  /\ InHi /\ Top.pc \in {"awaitG", "awaitDS", "awaitDS2"}
  /\ nCalls < MaxCalls
  /\ nCalls' = nCalls + 1
  /\ \E response \in ChatAnswers(IF Top.pc = "awaitG" THEN "google" ELSE "deepseek") :
       /\ history' = ChatPush(history, response)
       /\ memFile' = Snapshot(history')
       /\ stack' = SetTop(Did([Top EXCEPT !.pc = "plan", !.resp = response,
                                         !.plan = PlanSteps(response)],
                               <<"ok", "model", "save">>))
  /\ UNCHANGED <<currentProvider, pendingImage, hasGoogle, hasDeepseek, exited,
                 confirmPending, nLines,
                 mcpServers, boot, multiline, browsing, outside>>

\* for (const step of plan) await handleInput(step); then return
HiPlan ==
  /\ InHi /\ Top.pc = "plan"
  /\ stack' = IF Top.plan = <<>> THEN SetTop(HiEnds(Top, "answered"))
              ELSE Below \o <<Did([Top EXCEPT !.pc = "awaitPlan", !.plan = Tail(@)],
                                   <<"step">>),
                              Frame("hi", Head(Top.plan), FALSE)>>
  /\ StackOnly

\* mutant: the catch ends the process
FatalAlways(err) == TRUE

\* whether the catch of handleInput ends the process for the error of the
\* backend err: it logs the message and fails the spinner, nothing else
Fatal(err) == FALSE

\* mutant: the error is pushed as a system Turn
HiFailedNoted ==
  /\ InHi /\ Top.pc = "failed"
  /\ history' = Append(history, Turn("system", <<"Error: ", Top.err>>))
  /\ stack' = SetTop(Did(HiEnds(Top, "failed"), <<"error">>))
  /\ exited' = FALSE
  /\ UNCHANGED <<memFile, currentProvider, pendingImage, hasGoogle,
                 hasDeepseek, confirmPending, nCalls, nLines, mcpServers, boot,
                 multiline, browsing, outside>>

\* catch (e): the error is reported and handleInput returns
HiFailed ==
  /\ InHi /\ Top.pc = "failed"
  /\ stack' = SetTop(Did(HiEnds(Top, "failed"), <<"error">>))
  /\ exited' = Fatal(Top.err)
  /\ UNCHANGED <<history, memFile, currentProvider, pendingImage, hasGoogle,
                 hasDeepseek, confirmPending, nCalls, nLines, mcpServers, boot,
                 multiline, browsing, outside>>

\* the handler of the command has returned, or thrown and been reported
HiResume ==
  /\ InHi /\ Top.pc = "resume"
  /\ stack' = SetTop(IF Top.ret = "throw" THEN Did(HiEnds(Top, "threw"), <<"error">>)
                     ELSE HiEnds(Top, "dispatched"))
  /\ StackOnly

\* handleInput returns to the code that awaited it
HiExit ==
  /\ InHi /\ Top.pc = "done"
  /\ stack' = Return(Top.out, <<>>)
  /\ StackOnly

(* ------------------------------------------------------ the event loop *)
\* rl.on('line'): one of lines arrives while nothing is being dispatched, as
\* one of at most max lines
LineOf(lines, max) ==
  /\ ~exited /\ stack = <<>> /\ nLines < max
  /\ nLines' = nLines + 1
  /\ \E line \in lines : stack' = <<Frame("hi", line, FALSE)>>
  /\ UNCHANGED <<history, memFile, currentProvider, pendingImage, hasGoogle,
                 hasDeepseek, exited, confirmPending, nCalls, mcpServers, boot,
                 multiline, browsing, outside>>

LineFrom(lines) == LineOf(lines, MaxLines)

Line == LineFrom(UserLines)

\* rl.on('line'): one of lines arrives while a dispatch is suspended at an
\* await; its handler (/clear, /provider or /mcp_add) awaits nothing and runs
\* to completion before the suspended dispatch goes on
LineWhileSuspendedFrom(lines) ==
  /\ ~exited /\ Suspended /\ nLines < MaxLines
  /\ nLines' = nLines + 1
  /\ \E line \in lines :
       LET parts == Split(Trim(line))
           cmd == CmdKey(parts[1])
       IN  /\ IF cmd = "/clear"
              THEN /\ history' = <<>>
                   /\ pendingImage' = FALSE
                   /\ memFile' = Unlinked(memFile)
                   /\ stack' = CutAll(stack)
              ELSE UNCHANGED <<history, pendingImage, memFile, stack>>
           /\ currentProvider' = IF cmd = "/provider" THEN ProviderAfter(Tail(parts))
                                 ELSE currentProvider
           /\ mcpServers' = IF cmd = "/mcp_add" THEN McpAdded(mcpServers, Tail(parts))
                            ELSE mcpServers
  /\ UNCHANGED <<hasGoogle, hasDeepseek, exited, confirmPending, nCalls, boot, multiline, browsing, outside>>

LineWhileSuspended == LineWhileSuspendedFrom(SyncLines)

(* ------------------------------------------- the daemon and worker mode *)
\* a process: its process.argv, where it is (at "start" before the module is
\* evaluated, then "running" or "exited"), the process that spawned it (0 for
\* the shell) and how (detached or not), and whether it is the worker
Process(argv, parent, detached) ==
  [argv |-> argv, at |-> "start", parent |-> parent, detached |-> detached,
   isWorker |-> FALSE]

InSeq(x, seq) == \E k \in DOMAIN seq : seq[k] = x

\* mutant: the daemon flag is left among the arguments
Unfiltered(args, flag) == args

\* args.filter(a => a !== flag)
Without(args, flag) == SelectSeq(args, LAMBDA a : a # flag)

\* process.argv of the worker: process.argv[0], then process.argv.slice(1)
\* without the daemon flag, then the worker marker
WorkerArgv(argv) == <<argv[1]>> \o Append(Without(Tail(argv), "--daemon"), "--worker")

\* the process this model follows through its session: started from a shell
\* without the daemon flag, its module evaluated
Interactive ==
  [Process(<<"node", "index.js">>, 0, FALSE) EXCEPT !.at = "running"]

\* if (process.argv.includes('--daemon')): spawn the worker, detached, and
\* process.exit(0)
DaemonForks(i) ==
  /\ procs[i].at = "start" /\ InSeq("--daemon", procs[i].argv)
  /\ Len(procs) < MaxProcs
  /\ procs' = Append([procs EXCEPT ![i].at = "exited"],
                      Process(WorkerArgv(procs[i].argv), i, TRUE))

\* without the daemon flag the module is evaluated to its end: the process
\* is the worker when its arguments hold the worker marker
ProcessRuns(i) ==
  /\ procs[i].at = "start" /\ ~InSeq("--daemon", procs[i].argv)
  /\ procs' = [procs EXCEPT ![i].at = "running",
                             ![i].isWorker = InSeq("--worker", procs[i].argv)]

(* ------------------------------------------------------- the tool server *)
\* mcp-files-server.js. Paths are texts whose tokens are names, "/" and
\* ".."; the server handles one request at a time here.

\* requests handled in one behaviour
MaxRequests == 2

\* the directory the server runs in: the file f, the directory d
Directories == {<<"d">>}

StartFiles == [p \in {<<"f">>} |-> <<"hello">>]

\* the server before its first request: the files of its directory, no
\* request, no response, no file operation done
IdleServer ==
  [files |-> StartFiles, at |-> "idle", tool |-> "", args |-> <<>>,
   hasArgs |-> FALSE, status |-> 0, body |-> <<>>, err |-> "", ops |-> <<>>,
   ops0 |-> <<>>, files0 |-> StartFiles, served |-> 0]

\* const tools = [...]
tools == {"readFile", "writeFile", "appendFile"}

\* mutant: only an absolute path is refused
IsAbsoluteOnly(hasArgs, args) ==
  hasArgs /\ args # <<>> /\ args[1] # <<>> /\ args[1][1] = "/"

\* args && args[0] && (args[0].includes('..') || path.isAbsolute(args[0]))
InvalidPath(hasArgs, args) ==
  /\ hasArgs /\ args # <<>> /\ args[1] # <<>>
  /\ InSeq("..", args[1]) \/ args[1][1] = "/"

\* what fs answers to the call the tool makes: the error it rejects with,
\* or "" when the call succeeds. args[0] is undefined when the array is empty
FsError(tool, args, files) ==
  IF args = <<>> THEN "ERR_INVALID_ARG_TYPE"
  ELSE IF args[1] = <<>> THEN "ENOENT"
  ELSE IF args[1] \in Directories THEN "EISDIR"
  ELSE IF tool = "readFile" /\ args[1] \notin DOMAIN files THEN "ENOENT"
  ELSE ""

\* the files after the call succeeded
FsWrites(tool, args, files) ==
  LET p == args[1]
      text == Join(Tail(args))
      old == IF p \in DOMAIN files THEN files[p] ELSE <<>>
      new == IF tool = "writeFile" THEN text ELSE old \o <<"\n">> \o text
  IN  IF tool = "readFile" THEN files
      ELSE [q \in DOMAIN files \cup {p} |-> IF q = p THEN new ELSE files[q]]

\* the result of the tool
FsOutput(tool, args, files) ==
  IF tool = "readFile" THEN files[args[1]]
  ELSE IF tool = "writeFile" THEN <<"Successfully wrote to ">> \o args[1]
  ELSE <<"Successfully appended to ">> \o args[1]

\* the paths and the arrays of arguments a client sends
RequestPaths ==
  {<<>>, <<"f">>, <<"new">>, <<"d">>, <<"/", "f">>, <<"..", "/", "f">>,
   <<"d", "/", "..", "/", "f">>}

RequestArgs ==
  {<<>>} \cup {<<p>> : p \in RequestPaths}
         \cup {<<p, <<"x">>>> : p \in RequestPaths}
         \cup {<<p, <<"x">>, <<"y">>>> : p \in RequestPaths}

Answered(status, body, err) ==
  [server EXCEPT !.at = "answered", !.status = status, !.body = body, !.err = err]

\* app.post('/tools/:toolName') from the request to the call of fs: the
\* path check, then the switch on the tool name
ToolRequest(toolName, hasArgs, args) ==
  /\ server.at \in {"idle", "answered"}
  /\ server.served < MaxRequests
  /\ LET got == [server EXCEPT !.tool = toolName, !.hasArgs = hasArgs,
                               !.args = args, !.served = @ + 1,
                               !.ops0 = server.ops, !.files0 = server.files,
                               !.status = 0, !.body = <<>>, !.err = ""]
     IN  server' =
           IF InvalidPath(hasArgs, args)
             THEN [got EXCEPT !.at = "answered", !.status = 400,
                              !.body = <<"error", "Invalid file path. Only relative paths are allowed.">>]
           ELSE IF toolName \notin tools
             THEN [got EXCEPT !.at = "answered", !.status = 404,
                              !.body = <<"error", "Tool not found">>]
           ELSE IF ~hasArgs
             THEN [got EXCEPT !.at = "answered", !.status = 500, !.err = "TypeError",
                              !.body = <<"error", "TypeError">>]
           ELSE [got EXCEPT !.at = "fs",
                            !.ops = Append(@, [tool |-> toolName, args |-> args])]
  /\ UNCHANGED procs

\* the call of fs settles: res.json(result), or the catch
ToolSettles ==
  /\ server.at = "fs"
  /\ LET e == FsError(server.tool, server.args, server.files)
     IN  server' =
           IF e # ""
             THEN Answered(500, <<"error", e>>, e)
             ELSE [Answered(200, <<"output", FsOutput(server.tool, server.args,
                                     FsWrites(server.tool, server.args, server.files))>>, "")
                     EXCEPT !.files = FsWrites(server.tool, server.args, server.files)]
  /\ UNCHANGED procs

(* ------------------------------------------------------- specification *)
\* the snapshots an earlier session may have left in the working directory
EarlierSnapshots ==
  {NoFile, Snapshot(<<Turn("user", <<"hello">>), Turn("model", <<"hi from gemini">>)>>)}

\* the registry without a server: the local tool server was not reachable
NoServers == <<>>

\* the dispatch the startup sequence makes: the greeting, when a key is
\* configured and history is empty
StartupStack(h) ==
  IF (hasGoogle \/ hasDeepseek) /\ h = <<>>
  THEN <<Frame("hi", Greeting, TRUE)>> ELSE <<>>

\* nothing has been restarted yet
FirstBoot == [n |-> 0, found |-> FALSE, prior |-> <<>>, restored |-> <<>>]

\* the process after module evaluation: history is restored from the snapshot
\* when there is one, and the startup sequence greets when a key is configured
\* and history is empty
Init ==
  /\ memFile \in EarlierSnapshots
  /\ history = Restored(memFile)
  /\ currentProvider = "google"
  /\ pendingImage = FALSE
  /\ hasGoogle \in BOOLEAN
  /\ hasDeepseek \in BOOLEAN
  /\ stack = StartupStack(history)
  /\ exited = FALSE
  /\ confirmPending = FALSE
  /\ nCalls = 0
  /\ nLines = 0
  /\ mcpServers = NoServers
  /\ boot = FirstBoot
  /\ multilineMode = FALSE
  /\ multilineBuffer = <<>>
  /\ browser = FALSE
  /\ page = NoPage
  /\ procs = <<Interactive>>
  /\ server = IdleServer

\* the process stops, while it waits for a line or by process.exit, and is
\* started again in the same directory: the module is evaluated anew; boot
\* notes whether a snapshot was found, the history the stopped process held
\* and the history the new process restores
Restart ==
  /\ stack = <<>> \/ exited
  /\ boot.n < MaxBoots
  /\ memFile.exists => Parse(memFile.text)[1]
  /\ history' = Restored(memFile)
  /\ boot' = [n |-> boot.n + 1, found |-> memFile.exists, prior |-> history,
              restored |-> Restored(memFile)]
  /\ currentProvider' = "google"
  /\ pendingImage' = FALSE
  /\ stack' = StartupStack(Restored(memFile))
  /\ exited' = FALSE
  /\ confirmPending' = FALSE
  /\ mcpServers' = NoServers
  /\ multilineMode' = FALSE
  /\ multilineBuffer' = <<>>
  /\ browser' = FALSE
  /\ page' = NoPage
  /\ UNCHANGED <<memFile, hasGoogle, hasDeepseek, nCalls, nLines, outside>>

Next ==
  \/ TaskStart \/ TaskTest \/ TaskTry \/ TaskCallFails \/ TaskCallReturns
  \/ TaskResume \/ TaskCatch \/ TaskExit
  \/ CmdClear \/ CmdProvider \/ CmdQuit
  \/ CmdLsEnter \/ CmdLsListed \/ CmdLsFails
  \/ CmdDeleteEnter \/ CmdDeleteAsks \/ CmdDeleteMissing \/ ConfirmAnswered
  \/ HiEnter \/ HiPrimary \/ HiCallFails \/ HiCaught \/ HiFallbackFails
  \/ HiCallReturns \/ HiPlan \/ HiFailed \/ HiResume \/ HiExit
  \/ Line \/ LineWhileSuspended

Spec == Init /\ [][Next]_vars

(* ------------------------------------------------------ browser sessions *)
BrowserNext ==
  \/ TaskStart \/ TaskTest \/ TaskTry \/ TaskCallFails
  \/ TaskCallReturnsFrom(BrowserResponses)
  \/ TaskResume \/ TaskCatch \/ TaskExit
  \/ CmdBrowserEnter \/ CmdBrowserLaunched \/ CmdBrowserPaged \/ CmdBrowserFails
  \/ CmdVisitEnter \/ CmdVisitDone \/ CmdVisitFails
  \/ CmdDumpEnter \/ CmdDumpDone \/ CmdDumpFails
  \/ CmdGoogleEnter \/ CmdGoogleResume
  \/ HiEnter \/ HiPrimary \/ HiCallFails \/ HiCaught
  \/ HiCallReturns \/ HiPlan \/ HiFailed \/ HiResume \/ HiExit
  \/ LineFrom(BrowserLines)

BrowserSpec == Init /\ [][BrowserNext]_vars

(* ----------------------------------------------------- files written *)
FilesNext ==
  \/ TaskStart \/ TaskTest \/ TaskTry \/ TaskCallFails
  \/ TaskCallReturnsFrom(FileResponses)
  \/ TaskResume \/ TaskCatch \/ TaskExit
  \/ CmdClear \/ CmdWriteEnter \/ CmdWriteDone \/ CmdWriteFails
  \/ HiEnter \/ HiPrimary \/ HiCallFails \/ HiCaught
  \/ HiCallReturns \/ HiPlan \/ HiFailed \/ HiResume \/ HiExit
  \/ LineFrom(FileLines)

FilesSpec == Init /\ [][FilesNext]_vars

(* ------------------------------------------------------ the daemon path *)

\* what can be on the command line
Flags == {"--daemon", "--worker", "-v"}

RECURSIVE ArgsUpTo(_)
ArgsUpTo(n) ==
  IF n = 0 THEN {<<>>}
  ELSE LET shorter == ArgsUpTo(n - 1)
       IN  shorter \cup {Append(a, x) : a \in shorter, x \in Flags}

\* one process started from a shell with up to MaxArgs arguments; no session yet
DaemonInit ==
  /\ procs \in {<<Process(<<"node", "index.js">> \o a, 0, FALSE)>> : a \in ArgsUpTo(MaxArgs)}
  /\ history = <<>>
  /\ memFile = NoFile
  /\ currentProvider = "google"
  /\ pendingImage = FALSE
  /\ hasGoogle = FALSE
  /\ hasDeepseek = FALSE
  /\ stack = <<>>
  /\ exited = FALSE
  /\ confirmPending = FALSE
  /\ nCalls = 0
  /\ nLines = 0
  /\ mcpServers = <<>>
  /\ boot = [n |-> 0, found |-> FALSE, prior |-> <<>>, restored |-> <<>>]
  /\ multilineMode = FALSE
  /\ multilineBuffer = <<>>
  /\ browser = FALSE
  /\ page = NoPage
  /\ server = IdleServer

DaemonNext ==
  /\ \E i \in DOMAIN procs : DaemonForks(i) \/ ProcessRuns(i)
  /\ UNCHANGED <<history, memFile, currentProvider, pendingImage, hasGoogle,
                 hasDeepseek, stack, exited, confirmPending, nCalls, nLines,
                 mcpServers, boot, multiline, browsing, server>>

DaemonSpec == DaemonInit /\ [][DaemonNext]_vars

(* ---------------------------------------------------- the tool server *)

\* the server started in its directory, and no session
ServerInit ==
  /\ server = IdleServer
  /\ procs = <<Interactive>>
  /\ history = <<>>
  /\ memFile = NoFile
  /\ currentProvider = "google"
  /\ pendingImage = FALSE
  /\ hasGoogle = FALSE
  /\ hasDeepseek = FALSE
  /\ stack = <<>>
  /\ exited = FALSE
  /\ confirmPending = FALSE
  /\ nCalls = 0
  /\ nLines = 0
  /\ mcpServers = <<>>
  /\ boot = [n |-> 0, found |-> FALSE, prior |-> <<>>, restored |-> <<>>]
  /\ multilineMode = FALSE
  /\ multilineBuffer = <<>>
  /\ browser = FALSE
  /\ page = NoPage

ServerNext ==
  /\ \/ \E t \in tools \cup {"deleteFile"}, a \in RequestArgs : ToolRequest(t, TRUE, a)
     \/ \E t \in tools \cup {"deleteFile"} : ToolRequest(t, FALSE, <<>>)
     \/ ToolSettles
  /\ UNCHANGED <<history, memFile, currentProvider, pendingImage, hasGoogle,
                 hasDeepseek, stack, exited, confirmPending, nCalls, nLines,
                 mcpServers, boot, multiline, browsing>>

ServerSpec == ServerInit /\ [][ServerNext]_vars

(* ----------------------------------------- images and unknown commands *)
\* the process with an operator who queues images, names modes that do not
\* exist and commands that do not exist, and a backend that does the same
CommandNext ==
  \/ TaskStart \/ TaskTest \/ TaskTry \/ TaskCallFails
  \/ TaskCallReturnsFrom(TaskResponses \cup UnknownResponses)
  \/ TaskResume \/ TaskCatch \/ TaskExit
  \/ CmdClear \/ CmdProvider \/ CmdQuit
  \/ CmdLsEnter \/ CmdLsListed \/ CmdLsFails
  \/ CmdImageEnter \/ CmdImageRead \/ CmdImageFails
  \/ CmdDeleteEnter \/ CmdDeleteAsks \/ CmdDeleteMissing \/ ConfirmAnswered
  \/ HiEnter \/ HiPrimary \/ HiCallFails \/ HiCaught \/ HiFallbackFails
  \/ HiCallReturns \/ HiPlan \/ HiFailed \/ HiResume \/ HiExit
  \/ LineFrom(CommandLines) \/ LineWhileSuspended

CommandSpec == Init /\ [][CommandNext]_vars

(* ------------------------------------------------- stopped and restarted *)
RestartNext ==
  \/ TaskStart \/ TaskTest \/ TaskTry \/ TaskCallFails
  \/ TaskCallReturnsFrom(PlainResponses)
  \/ TaskCatch \/ TaskExit
  \/ CmdClear
  \/ HiEnter \/ HiPrimary \/ HiCallFails \/ HiCaught
  \/ HiCallReturns \/ HiPlan \/ HiFailed \/ HiResume \/ HiExit
  \/ LineFrom(RestartLines)
  \/ Restart

RestartSpec == Init /\ [][RestartNext]_vars

(* ----------------------------------------------------- multiline input *)
\* a process with no key or the Gemini key, and an operator who uses
\* multiline input
MultilineInit ==
  /\ memFile = NoFile
  /\ history = Restored(memFile)
  /\ currentProvider = "google"
  /\ pendingImage = FALSE
  /\ hasGoogle \in BOOLEAN
  /\ hasDeepseek = FALSE
  /\ stack = StartupStack(history)
  /\ exited = FALSE
  /\ confirmPending = FALSE
  /\ nCalls = 0
  /\ nLines = 0
  /\ mcpServers = NoServers
  /\ boot = FirstBoot
  /\ multilineMode = FALSE
  /\ multilineBuffer = <<>>
  /\ browser = FALSE
  /\ page = NoPage
  /\ procs = <<Interactive>>
  /\ server = IdleServer

MultilineNext ==
  \/ CmdMultiline \/ CmdProvider \/ CmdClear
  \/ HiMultiline \/ HiMultilineEnd
  \/ HiEnter \/ HiPrimary \/ HiCallFails \/ HiCaught
  \/ HiCallReturns \/ HiPlan \/ HiFailed \/ HiResume \/ HiExit
  \/ LineOf(MultilineLines, MaxMlLines)

MultilineSpec == MultilineInit /\ [][MultilineNext]_vars

(* ------------------------------------------------------ the tool servers *)
\* the registries the startup sequence may leave: none when the local tool
\* server does not answer, the label files when it does
StartupRegistries == {NoServers, <<Server(<<"files">>, LocalUrl)>>}

\* a process without a key of a backend, which uses the tool servers only
McpInit ==
  /\ memFile = NoFile
  /\ history = Restored(memFile)
  /\ currentProvider = "google"
  /\ pendingImage = FALSE
  /\ hasGoogle = FALSE
  /\ hasDeepseek = FALSE
  /\ stack = StartupStack(history)
  /\ exited = FALSE
  /\ confirmPending = FALSE
  /\ nCalls = 0
  /\ nLines = 0
  /\ mcpServers \in StartupRegistries
  /\ boot = FirstBoot
  /\ multilineMode = FALSE
  /\ multilineBuffer = <<>>
  /\ browser = FALSE
  /\ page = NoPage
  /\ procs = <<Interactive>>
  /\ server = IdleServer

McpNext ==
  \/ CmdMcpAdd \/ CmdMcpToolsEnter \/ CmdMcpToolsAnswer
  \/ CmdMcpCallEnter \/ CmdMcpCallAnswer \/ CmdMcpExit
  \/ HiEnter \/ HiResume \/ HiExit
  \/ LineFrom(McpLines) \/ LineWhileSuspendedFrom(McpSyncLines)

McpSpec == McpInit /\ [][McpNext]_vars

(* ------------------------------------------- chat, commands, loop, tools *)
\* a process that may have found the local tool server, with an operator who
\* chats, starts the agent loop, clears, and uses the tool servers
SessionLines ==
  UserLines \cup {<<"/mcp_add", " ", "a", " ", "http://a">>, <<"/mcp_tools">>,
                  <<"/mcp_call", " ", "files", " ", "t", " ", "x">>}

SessionInit ==
  /\ memFile \in EarlierSnapshots
  /\ history = Restored(memFile)
  /\ currentProvider = "google"
  /\ pendingImage = FALSE
  /\ hasGoogle \in BOOLEAN
  /\ hasDeepseek \in BOOLEAN
  /\ stack = StartupStack(history)
  /\ exited = FALSE
  /\ confirmPending = FALSE
  /\ nCalls = 0
  /\ nLines = 0
  /\ mcpServers \in StartupRegistries
  /\ boot = FirstBoot
  /\ multilineMode = FALSE
  /\ multilineBuffer = <<>>
  /\ browser = FALSE
  /\ page = NoPage
  /\ procs = <<Interactive>>
  /\ server = IdleServer

SessionNext ==
  \/ TaskStart \/ TaskTest \/ TaskTry \/ TaskCallFails
  \/ TaskCallReturnsFrom(TaskResponses \cup UnknownResponses)
  \/ TaskResume \/ TaskCatch \/ TaskExit
  \/ CmdClear \/ CmdProvider \/ CmdQuit
  \/ CmdLsEnter \/ CmdLsListed \/ CmdLsFails
  \/ CmdDeleteEnter \/ CmdDeleteAsks \/ CmdDeleteMissing \/ ConfirmAnswered
  \/ CmdMcpAdd \/ CmdMcpToolsEnter \/ CmdMcpToolsAnswer
  \/ CmdMcpCallEnter \/ CmdMcpCallAnswer \/ CmdMcpExit
  \/ HiEnter \/ HiPrimary \/ HiCallFails \/ HiCaught \/ HiFallbackFails
  \/ HiCallReturns \/ HiPlan \/ HiFailed \/ HiResume \/ HiExit
  \/ LineFrom(SessionLines) \/ LineWhileSuspendedFrom(SyncLines \cup McpSyncLines)

SessionSpec == SessionInit /\ [][SessionNext]_vars

(* ------------------------------------- the snapshot, written and restored *)
\* the contents a Turn may have: plain text, quotes, backslashes, newlines
RtContents ==
  {<<"hello">>, <<"say ", "\"", "hi", "\"">>, <<"a", "\\", "n">>, <<"x", "\n", "y", "\\">>}

RtTurns == {Turn(r, c) : r \in {"user", "model", "system"}, c \in RtContents}

RECURSIVE SeqsUpTo(_, _)
SeqsUpTo(S, n) ==
  IF n = 0 THEN {<<>>}
  ELSE LET shorter == SeqsUpTo(S, n - 1)
       IN  shorter \cup {Append(q, x) : q \in shorter, x \in S}

\* a process that holds any conversation of up to MaxTurns Turns, with no key
\* configured and no snapshot in the directory
RtInit ==
  /\ history \in SeqsUpTo(RtTurns, MaxTurns)
  /\ memFile = NoFile
  /\ currentProvider = "google"
  /\ pendingImage = FALSE
  /\ hasGoogle = FALSE
  /\ hasDeepseek = FALSE
  /\ stack = <<>>
  /\ exited = FALSE
  /\ confirmPending = FALSE
  /\ nCalls = 0
  /\ nLines = 0
  /\ mcpServers = NoServers
  /\ boot = FirstBoot
  /\ multilineMode = FALSE
  /\ multilineBuffer = <<>>
  /\ browser = FALSE
  /\ page = NoPage
  /\ procs = <<Interactive>>
  /\ server = IdleServer

\* fs.writeFileSync(MEMORY_FILE, JSON.stringify(history, null, 2)), by itself
RtSnapshot ==
  /\ ~exited /\ stack = <<>> /\ ~memFile.exists
  /\ memFile' = Snapshot(history)
  /\ UNCHANGED <<history, currentProvider, pendingImage, hasGoogle, hasDeepseek,
                 stack, exited, confirmPending, nCalls, nLines, mcpServers, boot, multiline, browsing, outside>>

RtNext == RtSnapshot \/ Restart

RoundTripSpec == RtInit /\ [][RtNext]_vars

(* ================================================================ claims *)
Count(seq, e) == Cardinality({k \in DOMAIN seq : seq[k] = e})

CallEvent(backend) == IF backend = "google" THEN "call:google" ELSE "call:deepseek"

\* the provider calls an activation has made
Calls(f) == Count(f.trace, "call:google") + Count(f.trace, "call:deepseek")

\* the trace of an activation with the backends' names and the dispatches left out
RECURSIVE Steps(_)
Steps(tr) ==
  IF tr = <<>> THEN <<>>
  ELSE IF Head(tr) \in {"call:google", "call:deepseek"} THEN <<"call">> \o Steps(Tail(tr))
  ELSE IF Head(tr) = "dispatch" THEN Steps(Tail(tr))
  ELSE <<Head(tr)>> \o Steps(Tail(tr))

IsTask(f) == f.kind = "cmd" /\ f.cmd = "/task"

\* the positions of the agent loop invocations in progress
TaskFrames == {i \in 1..Len(stack) : IsTask(stack[i])}

\* an agent loop invocation is in its terminal state, about to return
AtExit == stack # <<>> /\ IsTask(Top) /\ Top.pc = "exit"

\* the Turns pushed since the activation f started, when history was not cleared
Appended(f) == SubSeq(history, f.base + 1, Len(history))

Roles(turns) == [k \in 1..Len(turns) |-> turns[k].role]

\* no call of the invocation failed: no provider call, no building of a
\* request, no dispatched handler threw
NoFailure(f) == \A k \in DOMAIN f.trace : f.trace[k] \notin {"fail", "throw", "threw"}

CompletionToken(text) == ToLower(text) = <<"/done">>

TerminalStates == {"DONE", "ABORTED", "MAX_STEPS_REACHED"}

\* C1 (as claimed): every invocation of the agent loop reaches one of DONE,
\* ABORTED and MAX_STEPS_REACHED, after at most maxSteps provider calls,
\* whatever action texts the provider returns: no invocation is left without
\* a terminal state by the process having exited under it, and one that has
\* ended is in exactly one terminal state.
C1_EveryLoopEnds ==
  /\ \A i \in TaskFrames :
       /\ exited => stack[i].term \in TerminalStates
       /\ Calls(stack[i]) <= maxSteps
  /\ AtExit => Top.term \in TerminalStates

\* C2 (as claimed): in every state of an invocation the step counter is
\* within 0..maxSteps, the state in which the loop exits on exhaustion included.
C2_StepWithinMaxSteps == \A i \in TaskFrames : stack[i].step \in 0..maxSteps

C2_StepRange ==
  \A i \in TaskFrames :
    /\ stack[i].step \in 0..(maxSteps + 1)
    /\ stack[i].step = maxSteps + 1 =>
         stack[i].pc = "exit" /\ stack[i].term = "MAX_STEPS_REACHED"
    /\ Calls(stack[i]) <= maxSteps

C2_StepNeverDecreases ==
  \A i \in 1..Len(stack) :
    (i <= Len(stack') /\ IsTask(stack[i]) /\ IsTask(stack'[i]))
      => stack'[i].step >= stack[i].step

\* C2 (amended): the step counter is within 0..maxSteps+1 and never decreases
\* from one state to the next; it is maxSteps+1 only in the state in which the
\* loop exits because the budget is exhausted, and the invocation never makes
\* more than maxSteps provider calls.
C2_StepBounded == []C2_StepRange /\ [][C2_StepNeverDecreases]_vars

C2_Witness == AtExit /\ Top.step = maxSteps + 1 /\ Top.term = "MAX_STEPS_REACHED"

\* C3: when the provider never returns the completion token and no call
\* fails, the loop makes exactly maxSteps provider calls, appends exactly
\* maxSteps model Turns, ends in MAX_STEPS_REACHED and raises no error.
C3_ExhaustionAfterMaxSteps ==
  (AtExit /\ NoFailure(Top) /\ \A k \in DOMAIN Top.acts : ~CompletionToken(Top.acts[k]))
    => /\ Top.term = "MAX_STEPS_REACHED"
       /\ Calls(Top) = maxSteps
       /\ Count(Top.trace, "model") = maxSteps
       /\ Len(Top.acts) = maxSteps
       /\ Top.out = "ok"
       /\ (~Top.cut /\ Count(Top.trace, "dispatch") = 0)
            => Count(Roles(Appended(Top)), "model") = maxSteps

C3_Witness ==
  /\ AtExit /\ NoFailure(Top) /\ Top.term = "MAX_STEPS_REACHED"
  /\ Calls(Top) = maxSteps /\ ~Top.cut

\* C4 (as claimed): when the provider returns the completion token on its
\* first call, the loop reaches DONE after exactly 1 step with exactly 2 model
\* Turns appended.
C4_DoneWithTwoModelTurns ==
  (AtExit /\ Top.acts # <<>> /\ CompletionToken(Top.acts[1]))
    => /\ Top.term = "DONE" /\ Top.step = 1
       /\ Count(Top.trace, "model") = 2

\* C4 (amended): when the provider returns the completion token on its first
\* call, the loop reaches DONE after exactly 1 step and 1 provider call, with
\* exactly 2 Turns appended in total: the user Turn of START and the one
\* model Turn.
C4_DoneAfterOneStep ==
  (AtExit /\ Top.acts # <<>> /\ CompletionToken(Top.acts[1]))
    => /\ Top.term = "DONE" /\ Top.step = 1 /\ Calls(Top) = 1
       /\ Steps(Top.trace) = <<"user", "call", "model">>
       /\ ~Top.cut => Appended(Top) = <<GoalTurn(Join(Top.args)),
                                        Turn("model", Top.acts[1])>>

C4_Witness ==
  /\ AtExit /\ Top.acts = <<<<"/DONE">>>> /\ Top.term = "DONE" /\ ~Top.cut

ListDot == <<"/ls", " ", ".">>

\* C5: when the provider returns '/ls .' on steps 1 and 2, both listings
\* succeeding, and the completion token on step 3, the loop appends exactly 3
\* model Turns and 2 system Turns, each system Turn after the model Turn that
\* asked for it and before the next provider call, and ends in DONE.
C5_ListTwiceThenDone ==
  (/\ AtExit /\ Len(Top.acts) = 3
   /\ Top.acts[1] = ListDot /\ Top.acts[2] = ListDot /\ CompletionToken(Top.acts[3])
   /\ Count(Top.trace, "error") = 0)
    => /\ Top.term = "DONE"
       /\ Steps(Top.trace) = <<"user", "call", "model", "system",
                               "call", "model", "system", "call", "model">>
       /\ ~Top.cut =>
            /\ Roles(Appended(Top)) = <<"user", "model", "system", "model", "system", "model">>
            /\ Count(Roles(Appended(Top)), "system") >= 2
            /\ \A k \in {3, 5} : \E files \in Listings :
                 Appended(Top)[k] = Turn("system", <<"Output of /ls ", ".", ":", "\n">> \o files)

C5_Witness ==
  /\ AtExit /\ Top.acts = <<ListDot, ListDot, <<"/done">>>>
  /\ Count(Top.trace, "error") = 0 /\ Top.term = "DONE" /\ ~Top.cut
  /\ Count(Roles(Appended(Top)), "system") = 2

Last(seq) == seq[Len(seq)]

EndsWith(seq, tail) ==
  /\ Len(seq) >= Len(tail)
  /\ SubSeq(seq, Len(seq) - Len(tail) + 1, Len(seq)) = tail

\* C6: an exception raised by the provider call of a STEP ends the loop in
\* ABORTED at once, whatever budget is left: the failed call is the last thing
\* the invocation does, so the step appends no model Turn, dispatches no
\* command and no further provider call is made.
C6_ProviderErrorAborts ==
  \A i \in TaskFrames :
    LET f == stack[i] IN
    Count(f.trace, "fail") > 0
      => /\ Last(f.trace) = "fail" /\ Count(f.trace, "fail") = 1
         /\ i = Len(stack)
         /\ f.pc \in {"catch", "exit"}
         /\ f.pc = "exit" => f.term = "ABORTED"
         /\ Calls(f) = f.step
         /\ Count(f.trace, "model") = f.step - 1
         /\ Len(f.acts) = f.step - 1

C6_Witness ==
  /\ AtExit /\ Top.term = "ABORTED" /\ Last(Top.trace) = "fail"
  /\ Top.step = 2 /\ Top.step < maxSteps /\ Count(Top.trace, "model") = 1

\* C7 (as claimed): the agent loop dispatches a command only if it is one
\* of the commands advertised in the START turn; the handler of /delete,
\* which waits for the operator's confirmation, is never invoked by the loop.
C7_OnlyAllowListed ==
  \A i \in TaskFrames :
    (stack[i].pc = "awaitCmd" /\ i < Len(stack))
      => stack[i + 1].cmd \in AllowList /\ stack[i + 1].cmd # "/delete"

IsChat(f) == f.kind = "hi" /\ f.use # ""

\* the chat requests in progress
ChatFrames == {i \in 1..Len(stack) : IsChat(stack[i])}

\* the Turns a chat request with the response resp appends when it succeeds
ChatTurns(f) ==
  (IF f.sys THEN <<>> ELSE <<Turn("user", f.line)>>) \o <<Turn("model", f.resp)>>

\* the primary of the request failed and automatic mode was read on catching it
PrimaryFailedInAuto(f) == f.modeC = "auto" /\ f.use = "google"

\* C8: in automatic mode, a chat request whose primary call fails and whose
\* secondary call succeeds yields the secondary's output and appends exactly
\* one model Turn; when the secondary fails too, no model Turn is appended and
\* the error reported is the secondary's.
C8_FallbackOneModelTurn ==
  \A i \in ChatFrames :
    LET f == stack[i] IN
    PrimaryFailedInAuto(f)
      => /\ Count(f.trace, "ok") = 1
           => /\ f.resp \in DeepseekAnswers
              /\ Count(f.trace, "model") = 1
              /\ \E k \in DOMAIN f.trace :
                   /\ f.trace[k] \in {"fail", "throw"}
                   /\ Calls(f) = (IF f.trace[k] = "fail" THEN 2 ELSE 1)
                   /\ k + 3 <= Len(f.trace)
                   /\ SubSeq(f.trace, k + 1, k + 3) = <<"call:deepseek", "ok", "model">>
              /\ (Last(f.trace) = "save" /\ ~f.cut)
                   => Appended(f) = ChatTurns(f) /\ memFile = Snapshot(history)
         /\ f.term = "failed"
           => /\ f.err = "deepseek"
              /\ Count(f.trace, "model") = 0 /\ Count(f.trace, "ok") = 0
              /\ Last(f.trace) = "error"
              /\ ~f.cut => Count(Roles(Appended(f)), "model") = 0

C8_Witness ==
  /\ stack # <<>> /\ IsChat(Top) /\ PrimaryFailedInAuto(Top) /\ ~Top.cut
  /\ Top.mode0 = "auto" /\ hasGoogle /\ Count(Top.trace, "fail") = 1
  /\ Last(Top.trace) = "save" /\ Top.resp \in DeepseekAnswers

\* C9 (as claimed): in automatic mode with both backends configured, a STEP
\* whose primary call fails calls the secondary within the same STEP, so a
\* loop aborted by a provider error has had its secondary fail last.
C9_StepFallsBack ==
  \A i \in TaskFrames :
    LET f == stack[i] IN
    (/\ f.modeC = "auto" /\ hasGoogle /\ hasDeepseek
     /\ f.pc \in {"catch", "exit"} /\ Last(f.trace) = "fail")
      => EndsWith(f.trace, <<"call:google", "fail", "call:deepseek", "fail">>)

\* C10 (as claimed): a chat request made in an explicit provider mode calls
\* only the selected backend; when that call fails the other backend is not
\* called within the request, no model Turn is appended and no snapshot is
\* written.
C10_ExplicitNoFallback ==
  \A i \in ChatFrames :
    LET f == stack[i] IN
    f.mode0 \in {"google", "deepseek"}
      => /\ \A k \in DOMAIN f.trace :
              f.trace[k] \in {"call:google", "call:deepseek"}
                => f.trace[k] = CallEvent(f.mode0)
         /\ Count(f.trace, "fail") + Count(f.trace, "throw") > 0
              => /\ Calls(f) <= 1
                 /\ Count(f.trace, "model") = 0 /\ Count(f.trace, "save") = 0
                 /\ ~f.cut => memFile = f.mem0

\* C14: for any sequence of Turns, restoring the serialized snapshot of the
\* conversation yields the same sequence: the same length, and the same role
\* and content at every position.
C14_RoundTrip ==
  /\ memFile.exists =>
       /\ Parse(memFile.text)[1]
       /\ Len(Restored(memFile)) = Len(history)
       /\ \A k \in DOMAIN history :
            /\ Restored(memFile)[k].role = history[k].role
            /\ Restored(memFile)[k].content = history[k].content
  /\ (boot.n > 0 /\ boot.found) => boot.restored = boot.prior /\ history = boot.prior

C14_Witness ==
  /\ boot.n > 0 /\ boot.found /\ Len(boot.prior) = MaxTurns /\ history = boot.prior
  /\ \E k \in DOMAIN history :
       Count(history[k].content, "\"") > 0 \/ Count(history[k].content, "\\") > 0

\* C11 (as claimed): a pending image is sent with the provider request and
\* cleared only by a successful call: after a call that failed the image the
\* request took is still pending, also when a fallback follows, and a
\* successful call made while an image was pending has sent it and leaves
\* none pending.
C11_AttachmentClearedOnSuccess ==
  \A i \in ChatFrames :
    LET f == stack[i] IN
    (~f.cut /\ i = Len(stack) /\ f.trace # <<>>)
      => /\ (f.img = "sent" /\ Last(f.trace) = "fail") => pendingImage
         /\ Last(f.trace) = "save" => f.img \in {"sent", "none"} /\ ~pendingImage

\* C12 (as claimed): after a model Turn is appended, by a chat request or by
\* a STEP of the agent loop, the snapshot holds the whole conversation.
C12_SnapshotAfterModelTurn ==
  (history # <<>> /\ Last(history).role = "model")
    => memFile.exists /\ Restored(memFile) = history

\* C13 (as claimed): at startup an absent snapshot gives an empty history,
\* and a present one gives the history the prior session held when it stopped.
C13_RestartResumesHistory ==
  boot.n > 0 =>
    /\ ~boot.found => boot.restored = <<>>
    /\ boot.found => boot.restored = boot.prior

IsPrefix(p, q) == Len(p) <= Len(q) /\ SubSeq(q, 1, Len(p)) = p

\* what a restart does give: with no snapshot an empty history, with one the
\* conversation as it stood when the snapshot was last written, a non-empty
\* prefix of the history the stopped process held, ending in a model Turn
RestartResumesSnapshot ==
  boot.n > 0 =>
    /\ ~boot.found => boot.restored = <<>>
    /\ boot.found =>
         /\ IsPrefix(boot.restored, boot.prior)
         /\ boot.restored # <<>> /\ Last(boot.restored).role = "model"

\* a step that leaves the conversation it found as a prefix of the one it
\* leaves, or is a full clear
C15_Extends ==
  \/ IsPrefix(history, history')
  \/ history' = <<>> /\ ~memFile'.exists

\* C15: Turns are append-only: every step of the process (chat, command
\* dispatch, STEP of the agent loop, tool discovery, tool invocation) leaves
\* the conversation it found as an unchanged prefix of the one it leaves,
\* except a full clear, which empties it.
C15_AppendOnly == [][C15_Extends]_vars

\* a conversation that a restored snapshot, the agent loop and a tool handler
\* have extended
C15_Witness ==
  /\ Len(history) >= 4 /\ Count(Roles(history), "model") > 1
  /\ \E k \in DOMAIN history :
       /\ history[k].role = "system"
       /\ history[k].content[1] \in {"Available tools on ", "MCP Call "}

\* C16: after /clear the conversation is empty and there is no snapshot, so
\* a restart right after it starts with an empty history.
C16_ClearEmptiesBoth ==
  \A i \in 1..Len(stack) :
    (stack[i].trace # <<>> /\ Last(stack[i].trace) = "cleared" /\ i = Len(stack))
      => history = <<>> /\ ~memFile.exists /\ Restored(memFile) = <<>>

C16_Witness ==
  /\ stack # <<>> /\ Top.trace # <<>> /\ Last(Top.trace) = "cleared"
  /\ Top.base > 0 /\ Top.mem0.exists /\ history = <<>>

\* handleInput has found no handler for the command of its line
UnknownLine(f) == f.kind = "hi" /\ f.term = "unknown"

\* the agent loop has just found no handler for the command of its action text
UnknownAction(f) ==
  IsTask(f) /\ f.pc = "test" /\ EndsWith(f.trace, <<"model", "system">>)

\* C17 (as claimed): the dispatch of an unrecognized command, from a line or
\* from an action text of the agent loop, leaves the conversation, the
\* ProviderMode and the tool registry as they were, reports one error and
\* raises nothing.
C17_UnknownCommandChangesNothing ==
  \A i \in 1..Len(stack) :
    LET f == stack[i] IN
    /\ (UnknownLine(f) /\ ~f.cut /\ i = Len(stack))
         => /\ Len(history) = f.base
            /\ currentProvider = f.mode0 /\ mcpServers = f.reg0
            /\ Count(f.trace, "error") = 1 /\ f.out = "ok"
    /\ (UnknownAction(f) /\ ~f.cut /\ i = Len(stack))
         => /\ Last(history) = Turn("model", Last(f.acts))
            /\ mcpServers = f.reg0
            /\ f.out = "ok"

\* the line of the activation is /provider without one of the three modes
BadProviderLine(f) ==
  /\ f.kind = "hi" /\ f.line # <<>> /\ Split(f.line)[1] = <<"/provider">>
  /\ \/ Len(Split(f.line)) = 1
     \/ ToLower(Split(f.line)[2]) \notin {<<"google">>, <<"deepseek">>, <<"auto">>}

\* C18: the ProviderMode is always one of google, deepseek and auto, and a
\* /provider command with a missing or unrecognized argument leaves it as it was.
C18_ModeEnumerated ==
  /\ currentProvider \in {"google", "deepseek", "auto"}
  /\ \A i \in 1..Len(stack) :
       (BadProviderLine(stack[i]) /\ stack[i].pc \in {"resume", "done"})
         => currentProvider = stack[i].mode0

C18_Witness ==
  /\ stack # <<>> /\ BadProviderLine(Top) /\ Top.pc = "done"
  /\ Len(Split(Top.line)) = 2 /\ currentProvider = "auto" /\ boot.n = 0

\* the activations of the tool handler of command c
McpFrames(c) == {i \in 1..Len(stack) : stack[i].kind = "cmd" /\ stack[i].cmd = c}

\* the entries of the log of f for the event ev
Notes(f, ev) == SelectSeq(f.log, LAMBDA n : n.ev = ev)

\* the answers in the log of f that are failures of the server: it did not
\* answer or answered a non-success status
Failures(f) == SelectSeq(Notes(f, "answer"), LAMBDA n : n.what \in {"status", "down"})

\* the answers in the log of f that are tool lists
Lists(f) == SelectSeq(Notes(f, "answer"), LAMBDA n : n.what = "list")

\* C19: when /mcp_tools has run over the N servers registered when it
\* started, every one of them has been queried, in registry order, also those
\* that follow a failing one; the Turns appended are the catalog system Turns
\* of exactly the servers that answered with a tool list, N-M of them when
\* the other M failed; and the errors reported are one for each failing
\* server, carrying its label.
C19_DiscoveryIsolatesFailures ==
  \A i \in McpFrames("/mcp_tools") :
    LET f == stack[i] IN
    (f.pc = "exit" /\ ~f.cut /\ f.reg0 # <<>>)
      => /\ Labels(Notes(f, "query")) = Labels(f.reg0)
         /\ Labels(Notes(f, "answer")) = Labels(f.reg0)
         /\ Appended(f) = [k \in DOMAIN Lists(f) |-> CatalogTurn(Lists(f)[k].label, ToolsJson)]
         /\ Labels(Notes(f, "error")) = Labels(Failures(f))
         /\ Len(Notes(f, "answer")) = Len(Lists(f)) + Len(Failures(f))
              => Len(Appended(f)) = Len(f.reg0) - Len(Failures(f))

C19_Witness ==
  /\ stack # <<>> /\ Top.cmd = "/mcp_tools" /\ Top.pc = "exit" /\ ~Top.cut
  /\ Len(Top.reg0) = 2 /\ Len(Failures(Top)) = 1 /\ Len(Lists(Top)) = 1
  /\ Notes(Top, "answer")[1].what \in {"status", "down"}
  /\ Len(Appended(Top)) = 1

\* C20 (as claimed): when /mcp_call has run with a label and a tool, a label
\* that is not in the registry has made it send no request, append no Turn
\* and report one error; a call the server answered with a result has appended
\* the system Turn of that result and reported no error; and a call that did
\* not succeed has surfaced what the server answered, its status or its error
\* body, or that it could not be reached.
C20_CallSurfacesOutcome ==
  \A i \in McpFrames("/mcp_call") :
    LET f == stack[i]
        answers == Notes(f, "answer")
    IN  (f.pc = "exit" /\ ~f.cut /\ Len(f.args) >= 2)
          => /\ ~Has(f.reg0, f.args[1])
                  => /\ Notes(f, "request") = <<>> /\ answers = <<>>
                     /\ Appended(f) = <<>>
                     /\ Len(Notes(f, "error")) = 1
             /\ (answers # <<>> /\ answers[1].what = "result")
                  => /\ Appended(f) = <<ResultTurn(f.args[2], ResultJson)>>
                     /\ Notes(f, "error") = <<>>
             /\ (answers # <<>> /\ answers[1].what # "result")
                  => \E k \in DOMAIN f.log :
                       /\ f.log[k].ev \in {"shown", "error"}
                       /\ f.log[k].what \in {"status", "error", "network"}

\* a step in which no line is dispatched while a dispatch is suspended
C22_Waits == Suspended => nLines' = nLines

\* C22 (as claimed): no two dispatches are in progress at the same time: while
\* a dispatch (a chat request, a running agent loop) is suspended at an
\* awaited I/O call, no input line is dispatched; the line waits until the
\* earlier dispatch has completed.
C22_OneDispatchAtATime == [][C22_Waits]_vars

\* C28: an action text that is '/done' after trimming, in any case, ends the
\* loop as DONE in the step that received it: it is the last model Turn of
\* the conversation, the invocation did nothing after pushing it (no handler,
\* no system Turn, no provider call) and is about to return.
C28_DoneInSameStep ==
  \A i \in TaskFrames :
    LET f == stack[i] IN
    (f.acts # <<>> /\ CompletionToken(Last(f.acts)))
      => /\ f.pc = "exit" /\ f.term = "DONE" /\ i = Len(stack)
         /\ Last(f.trace) = "model"
         /\ Calls(f) = Len(f.acts)
         /\ Last(history) = Turn("model", Last(f.acts))

C28_Witness ==
  /\ AtExit /\ Len(Top.acts) = 2 /\ Last(Top.acts) = <<"/DONE">>
  /\ Top.term = "DONE" /\ Last(history).content = <<"/DONE">>

\* the action texts of f that start an agent loop
LoopsStarted(f) ==
  SelectSeq(f.acts, LAMBDA a : ~IsDone(a) /\ StartsWithSlash(a) /\ Split(a)[1] = <<"/task">>)

\* a model Turn whose text starts an agent loop
StartsLoop(t) ==
  /\ t.role = "model" /\ ~IsDone(t.content)
  /\ StartsWithSlash(t.content) /\ Split(t.content)[1] = <<"/task">>

C30_PlainAction ==
  /\ InTask /\ Top.pc \in {"awaitG", "awaitDS"}
  /\ Len(stack') >= Len(stack)
  /\ LET g == stack'[Len(stack)]
     IN  /\ Len(g.acts) = Len(Top.acts) + 1
         /\ ~IsDone(Last(g.acts)) /\ ~StartsWithSlash(Last(g.acts))

\* C30: a step in which the loop receives an action text that is neither the
\* completion token nor a command appends it as a model Turn and nothing
\* else, starts no handler, leaves the ProviderMode and the tool registry as
\* they were, and goes on to the test of the next step.
C30_PlainActionNotExecuted ==
  [][C30_PlainAction
       => /\ history' = Append(history, Turn("model", Last(stack'[Len(stack)].acts)))
          /\ Len(stack') = Len(stack)
          /\ Top'.pc = "test" /\ Top'.step = Top.step
          /\ Last(Top'.trace) = "model"
          /\ currentProvider' = currentProvider /\ mcpServers' = mcpServers]_vars

C30_Witness ==
  /\ stack # <<>> /\ IsTask(Top) /\ Top.pc = "test" /\ Top.acts # <<>>
  /\ Last(Top.acts) = <<"hello">> /\ Last(Top.trace) = "model"
  /\ Last(history) = Turn("model", <<"hello">>)

\* an activation that has met an error: a provider call that failed or threw,
\* a handler or a tool server that failed and was reported
MetError(f) ==
  \/ \E k \in DOMAIN f.trace : f.trace[k] \in {"fail", "throw", "threw", "error"}
  \/ \E k \in DOMAIN f.log : f.log[k].ev = "error"

Requested(f) == IF f.pc = "awaitG" THEN "google" ELSE "deepseek"

\* C23 (as claimed): in every provider request, of the chat path and of the
\* agent loop, to either backend, each message made from a system Turn goes
\* under a role that is neither system nor the model's and its text starts
\* with 'SYSTEM INFO: ', and each message made from a model Turn goes under
\* the backend's name for the role of the model.
C23_TurnsMappedForProvider ==
  \A i \in 1..Len(stack) :
    LET f == stack[i] IN
    f.pc \in {"awaitG", "awaitDS", "awaitDS2"}
      => \A k \in DOMAIN f.req :
           LET m == f.req[k] IN
           /\ m.of = "system"
                => /\ m.role \notin {"system", ModelRole(Requested(f))}
                   /\ m.text[1] = "SYSTEM INFO: "
           /\ m.of = "model" => m.role = ModelRole(Requested(f))

\* the ways a handleInput ends when it has taken its line as an input: a
\* command it dispatched or did not know, a chat request answered or failed
TakenAsInput == {"dispatched", "unknown", "threw", "answered", "failed"}

\* C26 (as claimed): in multiline mode the line '>>>' sends what was
\* accumulated: when the buffer is not blank, its trimmed text is given to
\* one handleInput, which takes it as a command or as a chat request, and
\* the buffer is empty when the '>>>' has been handled.
C26_EndSendsBuffer ==
  \A i \in 1..Len(stack) :
    LET f == stack[i] IN
    (f.kind = "hi" /\ f.ml0 /\ f.line = <<">>>">> /\ Trim(f.buf0) # <<>>)
      => /\ f.pc = "awaitMl" => stack[i + 1].line = Trim(f.buf0)
         /\ (f.pc = "awaitMl" /\ stack[i + 1].pc = "done")
              => stack[i + 1].term \in TakenAsInput
         /\ f.pc = "done" => Count(f.trace, "send") = 1 /\ multilineBuffer = <<>>

\* C27 (as claimed): when the line '/multiline' has been handled in a state
\* in which multiline mode was ON, multiline mode is OFF, and a command
\* entered after that is dispatched.
C27_ToggleOff ==
  \A i \in 1..Len(stack) :
    LET f == stack[i] IN
    /\ (f.kind = "hi" /\ f.ml0 /\ f.line = <<"/multiline">> /\ f.pc = "done")
         => ~multilineMode /\ f.term = "dispatched"
    /\ (f.kind = "hi" /\ ~f.ml0 /\ f.line = <<"/provider", " ", "deepseek">> /\ f.pc = "done")
         => f.term = "dispatched" /\ currentProvider = "deepseek"

\* the processes that process i spawned
Spawned(i) == {j \in DOMAIN procs : procs[j].parent = i}

\* C24: a process started with the daemon flag has exited, having spawned
\* one detached process whose arguments are its own without the daemon flag
\* followed by the worker marker, and never evaluates the rest of the
\* module; a process without the daemon flag spawns nothing; the spawned
\* process carries no daemon flag, runs as the worker and spawns nothing, so
\* the daemon path makes two processes and no more.
C24_DaemonSpawnsOneWorker ==
  /\ \A i \in DOMAIN procs :
       LET p == procs[i] IN
       /\ (InSeq("--daemon", p.argv) /\ p.at # "start")
            => /\ p.at = "exited"
               /\ Cardinality(Spawned(i)) = 1
               /\ \A j \in Spawned(i) :
                    /\ procs[j].detached
                    /\ procs[j].argv =
                         Append(SelectSeq(p.argv, LAMBDA a : a # "--daemon"), "--worker")
       /\ ~InSeq("--daemon", p.argv) => Spawned(i) = {} /\ p.at # "exited"
       /\ p.parent # 0
            => /\ ~InSeq("--daemon", p.argv) /\ Last(p.argv) = "--worker"
               /\ p.at = "running" => p.isWorker
  /\ Len(procs) <= 2

C24_Witness ==
  /\ Len(procs) = 2 /\ procs[1].at = "exited" /\ procs[2].at = "running"
  /\ procs[2].isWorker /\ Count(procs[1].argv, "--daemon") = 2
  /\ InSeq("-v", procs[2].argv)

\* the last request's first argument is a text that holds '..' or starts
\* at the root
TraversalOrAbsolute ==
  /\ server.hasArgs /\ server.args # <<>> /\ server.args[1] # <<>>
  /\ \/ \E k \in DOMAIN server.args[1] : server.args[1][k] = ".."
     \/ server.args[1][1] = "/"

\* C21: once a request is answered: if its first argument holds '..' or is
\* absolute the answer is 400 and neither a call of fs was made nor a file
\* changed, whatever the tool name, known or unknown; otherwise an unknown
\* tool name is answered 404; otherwise a failed handler is answered 500
\* with an error body, and 500 is answered for nothing else.
C21_ErrorStatuses ==
  server.at = "answered" =>
    /\ TraversalOrAbsolute
         => /\ server.status = 400
            /\ server.ops = server.ops0 /\ server.files = server.files0
    /\ server.status = 400 => TraversalOrAbsolute
    /\ (~TraversalOrAbsolute /\ server.tool \notin {"readFile", "writeFile", "appendFile"})
         => server.status = 404 /\ server.ops = server.ops0
    /\ server.status = 404 => server.tool \notin {"readFile", "writeFile", "appendFile"}
    /\ server.err # ""
         => /\ server.status = 500
            /\ server.body = <<"error", server.err>>
            /\ server.files = server.files0
    /\ server.status = 500 => server.err # ""

\* an unknown tool asked with a traversal path is answered 400, not 404,
\* after an earlier request wrote a file
C21_Witness ==
  /\ server.at = "answered" /\ server.status = 400
  /\ server.tool = "deleteFile" /\ server.args[1] = <<"d", "/", "..", "/", "f">>
  /\ server.ops # <<>> /\ <<"new">> \in DOMAIN server.files

\* the activations of commands['/google'] that have started
GoogleFrames ==
  {i \in 1..Len(stack) : stack[i].kind = "cmd" /\ stack[i].cmd = "/google"
                           /\ stack[i].pc # "enter"}

IsPrefixOf(a, b) == Len(a) <= Len(b) /\ a = SubSeq(b, 1, Len(a))

\* the handlers the activation f has called, in order
SubDispatches(f) ==
  SelectSeq(f.trace, LAMBDA e : e \in {"/browser", "/visit", "/dump"})

\* an invocation of /google: the handlers it has called are the first ones
\* of launch, navigate, extract (or of navigate, extract); every call but
\* the last has its result noted before the next call, and the last has
\* none only while its handler runs right above or when it threw; while
\* the text is being extracted no navigation is in progress; and the text
\* it has appended is that of the document the page shows, the search
\* results when the navigation succeeded
C31_InOrder ==
  \A i \in GoogleFrames :
    LET f == stack[i]
        T == f.trace
    IN  /\ \/ IsPrefixOf(SubDispatches(f), <<"/browser", "/visit", "/dump">>)
           \/ IsPrefixOf(SubDispatches(f), <<"/visit", "/dump">>)
        /\ \A k \in DOMAIN T :
             (k % 2 = 1) <=> T[k] \in {"/browser", "/visit", "/dump"}
        /\ Len(T) % 2 = 1
             <=> \/ /\ f.pc = "awaitCmd" /\ i < Len(stack)
                    /\ stack[i + 1].kind = "cmd" /\ stack[i + 1].cmd = Last(T)
                 \/ f.pc = "resume" /\ f.ret = "throw" /\ i = Len(stack)
        /\ (i < Len(stack) /\ stack[i + 1].cmd = "/dump") => ~page.loading
        /\ (T # <<>> /\ Last(T) = "system" /\ i = Len(stack))
             => /\ ~page.loading
                /\ Last(history) = DumpTurn(InnerText(page.url))
                /\ T[Len(T) - 2] = "visited" => page.url = SearchUrl(f.args)

\* commands['/google'] starts: it calls the browser launch when there is no
\* browser, and only then
GoogleStarts ==
  /\ InCmd("/google") /\ Top.pc = "enter"
  /\ Len(stack') = Len(stack) + 1

\* C31: /google runs launch (only when no browser is open), navigate and
\* extract in this order, each completed before the next starts, and the
\* page text it appends is never extracted before the navigation completed.
C31_GoogleStepsInOrder ==
  [][/\ C31_InOrder'
     /\ GoogleStarts => (Top'.cmd = "/browser" <=> ~browser)]_vars

\* a search that launched the browser, navigated and appended the text of
\* the search results, the query escaped
C31_Witness ==
  /\ InCmd("/google") /\ Top.pc = "resume"
  /\ Top.trace = <<"/browser", "launched", "/visit", "visited", "/dump", "system">>
  /\ Last(history) =
       DumpTurn(<<"text of ", "https://www.google.com/search?q=", "q", "%20", "x">>)

\* the activations of handleInput that dispatched the agent loop
TaskCallers ==
  {i \in 1..Len(stack) : /\ stack[i].kind = "hi" /\ stack[i].pc \notin {"enter"}
                         /\ StartsWithSlash(stack[i].line)
                         /\ Split(stack[i].line)[1] = <<"/task">>}

\* C34: an agent loop whose dispatched handler threw does nothing after the
\* throw but end: the model Turn of the step is in the conversation, no step
\* follows, the loop ends ABORTED and its handler returns normally to its
\* caller, which reports no error; a loop whose provider call threw ends in
\* the same state.
C34_HandlerThrowEndsLoop ==
  /\ \A i \in TaskFrames :
       LET f == stack[i] IN
       /\ (\E k \in DOMAIN f.trace : f.trace[k] \in {"threw", "fail", "throw"})
            => /\ Last(f.trace) \in {"threw", "fail", "throw"}
               /\ f.pc \in {"catch", "exit"}
               /\ f.pc = "exit" => f.term = "ABORTED" /\ f.out = "ok"
       /\ (f.trace # <<>> /\ Last(f.trace) = "threw" /\ ~f.cut)
            => /\ Count(Roles(Appended(f)), "model") >= Len(f.acts)
               /\ \E k \in DOMAIN Appended(f) :
                    /\ Appended(f)[k] = Turn("model", Last(f.acts))
                    /\ Count(Roles(SubSeq(Appended(f), 1, k)), "model") = Len(f.acts)
               /\ f.step = Len(f.acts)
  /\ \A i \in TaskCallers : stack[i].term # "threw" /\ stack[i].ret # "throw"

\* a loop ends ABORTED at its second step, with steps left, because the
\* handler of its action threw; the action is the last Turn
C34_Witness ==
  /\ AtExit /\ Top.term = "ABORTED" /\ Last(Top.trace) = "threw"
  /\ Len(Top.acts) = 2 /\ Top.step = 2 /\ Top.step < maxSteps
  /\ Last(history) = Turn("model", <<"/dump">>)

\* the chat requests whose provider call has finally failed, and during
\* which the conversation was not cleared
FailedRequests ==
  {i \in 1..Len(stack) : /\ stack[i].kind = "hi" /\ ~stack[i].cut
                         /\ \/ stack[i].pc = "failed"
                            \/ stack[i].pc = "done" /\ stack[i].term = "failed"}

\* C33: a chat request whose provider call finally failed, in an explicit
\* mode or after the fallback of the automatic mode, has appended its user
\* Turn and nothing else (a request made with the system-prompt flag has no
\* user Turn and has appended nothing), and has written no snapshot.
C33_FailedRequestLeavesUserTurn ==
  \A i \in FailedRequests :
    LET f == stack[i] IN
    /\ Appended(f) = IF f.sys THEN <<>> ELSE <<Turn("user", f.line)>>
    /\ memFile = f.mem0
    /\ \E k \in DOMAIN f.trace : f.trace[k] \in {"fail", "throw"}
    /\ \A k \in DOMAIN f.trace : f.trace[k] \notin {"model", "save"}

\* two requests in a row have failed: the conversation ends with their two
\* user Turns, no model Turn between them
C33_Witness ==
  /\ FailedRequests # {} /\ InHi /\ Top.pc = "done" /\ ~Top.sys
  /\ Len(history) >= 2
  /\ history[Len(history)] = Turn("user", <<"hello">>)
  /\ history[Len(history) - 1] = Turn("user", <<"hello">>)

\* C32 (as claimed): in every state the snapshot, when the file exists, is
\* a conversation, the one a restart would restore, and it is a prefix of
\* the conversation in memory, so that what a restart loses is the Turns
\* beyond it.
C32_SnapshotIsPrefix ==
  memFile.exists
    => /\ Parse(memFile.text)[1]
       /\ IsPrefixOf(Restored(memFile), history)

====
